---- MODULE Spec2Model ----
(***************************************************************************)
(* A model of the MCP Host (src/mcp-host/mcp_host): the configuration      *)
(* loader's dependency checks and startup order, the Host's                *)
(* initialize/shutdown lifecycle, one ServerProcess per child with its     *)
(* pending-request table, and the RequestRouter with its timeout/retry     *)
(* loop and the prompt/resource cache.                                     *)
(*                                                                         *)
(* The specifications share the variables:                                *)
(*   SpecConfig    ConfigLoader.load's dependency validation and           *)
(*                 get_startup_order, over every bounded configuration;    *)
(*   SpecEnv       ConfigLoader.load's .env file and ${NAME} expansion;    *)
(*   SpecHost      MCPHost.initialize / MCPHost.shutdown call sequences;   *)
(*   SpecCache     operation sequences on a small Cache;                   *)
(*   SpecRegistry  registrations and name lookups on the registry;         *)
(*   Spec          routed calls on an initialized Host, concurrent with    *)
(*                 the children's replies, timeouts and Host shutdown;     *)
(*   SpecRouter    routed calls with any arguments and error replies;      *)
(*   SpecShutdown  MCPHost.shutdown called again while it is in progress;  *)
(*   SpecReader    the stdout reader: any line, notifications, child exit, *)
(*                 and calls made with a timeout;                          *)
(*   SpecCaps      the */list requests of one server startup;              *)
(*   SpecHandshake the startup handshake of a server, concurrent with a    *)
(*                 caller's attempts and retries;                          *)
(*   SpecRetry     one call answered by results, error responses or        *)
(*                 invalid responses, concurrent with Host shutdown;       *)
(*   SpecBackoff   the retry loop's delays, over every bounded retry       *)
(*                 configuration.                                          *)
(***************************************************************************)
EXTENDS Integers, Sequences, FiniteSets, TLC

VARIABLES
    config,        \* ConfigLoader._config: server name -> list of dependencies
    cfgPc,         \* SpecConfig: "new" | "loaded" | "ordered"
    loadResult,    \* outcome of ConfigLoader.load
    startupOrder   \* list returned by ConfigLoader.get_startup_order

cfgVars == <<config, cfgPc, loadResult, startupOrder>>

VARIABLES
    hInitialized,  \* MCPHost._initialized
    hShutdown,     \* MCPHost._shutdown
    hostPc,        \* where the running initialize()/shutdown() call is suspended
    startIdx,      \* index into startup_order of the server being started
    pendingRaise,  \* exception initialize() re-raises once its shutdown() returns
    hostCalls,     \* number of initialize()/shutdown() calls made so far
    lastResult,    \* how the most recent initialize()/shutdown() call ended
    spawnLog,      \* servers spawned by the current initialize() call, in order
    cleanupOn      \* Cache._cleanup_task is running

hostVars == <<hInitialized, hShutdown, hostPc, startIdx, pendingRaise, hostCalls,
              lastResult, spawnLog, cleanupOn>>

VARIABLES
    servers,       \* ServerManager.servers: names that have a ServerProcess
    srvState,      \* ServerProcess.state of the latest ServerProcess of a name
    procState,     \* its child process: "none" | "running" | "exited"
    stdinOpen,     \* its stdin pipe is open
    readerOn,      \* its _read_task is running
    shutPc,        \* progress of its shutdown() coroutine
    pending,       \* ServerProcess._pending_responses: ids with a waiting future
    registry,      \* CapabilityRegistry._capabilities: registered server names
    spawned,       \* child processes ever spawned for a name
    exited         \* child processes of a name that have exited

srvVars == <<servers, srvState, procState, stdinOpen, readerOn, shutPc, pending,
             registry, spawned, exited>>

VARIABLES
    call,          \* per embedder task: the routed call it is running
    received,      \* per server: ids of the request frames its child has been sent
    cache,         \* Cache._cache: entries, least recently used first
    ttlElapsed,    \* cache keys one of whose entries has outlived its ttl
    lost           \* ids whose response was discarded during the first send_request

callVars == <<call, received, cache, ttlElapsed, lost>>

VARIABLES
    lruLog,        \* SpecCache: the operations made on the Cache, as its user saw them
    lookup,        \* SpecRegistry: the latest find_* call and what it returned
    envLoad,       \* SpecEnv: os.environ, the .env file, a configuration string
                   \* and what ConfigLoader.load made of them
    metrics        \* MetricsCollector._metrics: per server, the counts recorded

VARIABLES
    overlap,       \* SpecShutdown: the shutdown() call made while another is in progress
    reader,        \* SpecReader: notification handlers, the lines the stdout readers
                   \* have handled, and the timeout each embedder task asked for
    wire,          \* per server: the handshake frames written to its current child
                   \* and the initialize responses read from it, in order
    caps,          \* SpecCaps: one _start_server call after initialize_server: the
                   \* */list responses read and what was registered
    backoff        \* SpecBackoff: one execute_with_retry call: its retry
                   \* configuration, `delay`, `attempt` and the delays slept

moreVars == <<overlap, reader, wire, caps, backoff>>

\* the variables no routed call touches
idleAux == <<lruLog, lookup, envLoad, moreVars>>

auxVars == <<lruLog, lookup, envLoad, metrics, moreVars>>

vars == <<cfgVars, hostVars, srvVars, callVars, auxVars>>

(***************************************************************************)
(* Configuration documents.  The servers map is a dict, iterated in        *)
(* insertion order; each server carries an ordered `dependencies` list.    *)
(***************************************************************************)
ServerOrder == <<"a", "b", "c">>

Names == {ServerOrder[i] : i \in 1..Len(ServerOrder)}

\* list(servers.keys()): the declared servers in document order
IsDeclared(deps, n) == n \in DOMAIN deps

Keys(deps) == SelectSeq(ServerOrder, LAMBDA n : IsDeclared(deps, n))

\* a name no server declares (a dangling dependency reference)
Ghost == "zz"

\* longest dependencies list drawn
MaxDeps == 2

RECURSIVE SeqsUpTo(_, _)
SeqsUpTo(S, n) ==
    IF n = 0 THEN {<<>>}
    ELSE LET shorter == SeqsUpTo(S, n - 1)
         IN  shorter \cup {Append(q, x) : q \in {r \in shorter : Len(r) = n - 1}, x \in S}

Range(q) == {q[i] : i \in 1..Len(q)}

IsInjective(q) == \A i, j \in 1..Len(q) : q[i] = q[j] => i = j

DepLists(S) == {q \in SeqsUpTo(S, MaxDeps) : IsInjective(q)}

\* every schema-valid servers map over Names, dangling references included
Configs == [Names -> DepLists(Names \cup {Ghost})]

NoError == [kind |-> "ok", names |-> {}]

\* load() has not been called yet
NotLoaded == [kind |-> "not_loaded", names |-> {}]

(***************************************************************************)
(* ConfigLoader._validate_dependencies: the first (server, dep) pair, in   *)
(* dict order then list order, whose dep is not a declared server.         *)
(***************************************************************************)
RECURSIVE FirstMissing(_, _, _)
FirstMissing(deps, i, j) ==
    IF i > Len(Keys(deps)) THEN NoError
    ELSE LET server_name == Keys(deps)[i]
         IN  IF j > Len(deps[server_name]) THEN FirstMissing(deps, i + 1, 1)
             ELSE IF deps[server_name][j] \notin DOMAIN deps
                  THEN [kind |-> "missing_dependency",
                        names |-> {server_name, deps[server_name][j]}]
                  ELSE FirstMissing(deps, i, j + 1)

(***************************************************************************)
(* ConfigLoader._check_circular_dependencies: DFS with a visited set and a *)
(* recursion stack.  The state threaded through the recursion is           *)
(* [visited, stack, err]; err other than NoError is the raised             *)
(* ConfigurationError, which unwinds every frame.                          *)
(***************************************************************************)
OnStackVisited(dep, st) == dep \in st.visited

\* `elif dep in recursion_stack`
OnStack(dep, st) == dep \in st.stack

RECURSIVE CycDfs(_, _, _)
RECURSIVE CycLoop(_, _, _, _)
CycLoop(deps, server_name, j, st) ==
    IF st.err # NoError THEN st
    ELSE IF j > Len(deps[server_name])
         THEN [st EXCEPT !.stack = @ \ {server_name}]
         ELSE LET dep == deps[server_name][j]
              IN  IF dep \notin st.visited
                  THEN CycLoop(deps, server_name, j + 1, CycDfs(deps, dep, st))
                  ELSE IF OnStack(dep, st)
                       THEN [st EXCEPT !.err = [kind |-> "circular_dependency",
                                                names |-> {server_name, dep}]]
                       ELSE CycLoop(deps, server_name, j + 1, st)

CycDfs(deps, server_name, st) ==
    CycLoop(deps, server_name, 1,
            [st EXCEPT !.visited = @ \cup {server_name},
                       !.stack = @ \cup {server_name}])

RECURSIVE CycOuter(_, _, _)
CycOuter(deps, i, st) ==
    IF i > Len(Keys(deps)) \/ st.err # NoError THEN st
    ELSE IF Keys(deps)[i] \notin st.visited
         THEN CycOuter(deps, i + 1, CycDfs(deps, Keys(deps)[i], st))
         ELSE CycOuter(deps, i + 1, st)

CheckCircularDependencies(deps) ==
    CycOuter(deps, 1, [visited |-> {}, stack |-> {}, err |-> NoError]).err

ValidateDependencies(deps) ==
    IF FirstMissing(deps, 1, 1) # NoError
    THEN FirstMissing(deps, 1, 1)
    ELSE CheckCircularDependencies(deps)

\* ConfigLoader.load on a schema-valid document without ${...} tokens
Load(deps) == ValidateDependencies(deps)

(***************************************************************************)
(* ConfigLoader.get_startup_order: DFS, a server is appended after its     *)
(* dependencies have been visited.  State [visited, order].                *)
(***************************************************************************)
RECURSIVE TopoDfs(_, _, _)
RECURSIVE TopoLoop(_, _, _, _)
TopoLoop(deps, server_name, j, st) ==
    IF j > Len(deps[server_name]) THEN st
    ELSE TopoLoop(deps, server_name, j + 1, TopoDfs(deps, deps[server_name][j], st))

\* a server appended before its dependencies are visited
TopoDfsPreOrder(deps, server_name, st) ==
    IF server_name \in st.visited THEN st
    ELSE TopoLoop(deps, server_name, 1,
                  [visited |-> st.visited \cup {server_name},
                   order |-> Append(st.order, server_name)])

TopoDfs(deps, server_name, st) ==
    IF server_name \in st.visited THEN st
    ELSE LET after == TopoLoop(deps, server_name, 1,
                               [st EXCEPT !.visited = @ \cup {server_name}])
         IN  [after EXCEPT !.order = Append(@, server_name)]

RECURSIVE TopoOuter(_, _, _)
TopoOuter(deps, i, st) ==
    IF i > Len(Keys(deps)) THEN st
    ELSE TopoOuter(deps, i + 1, TopoDfs(deps, Keys(deps)[i], st))

GetStartupOrder(deps) == TopoOuter(deps, 1, [visited |-> {}, order |-> <<>>]).order

(***************************************************************************)
(* The dependency graph, independently of the loader's traversals.         *)
(***************************************************************************)
Edge(deps, x, y) == x \in DOMAIN deps /\ y \in Range(deps[x])

RECURSIVE ReachFrom(_, _, _)
ReachFrom(deps, frontier, seen) ==
    LET next == {y \in Names \cup {Ghost} : \E x \in frontier : Edge(deps, x, y)} \ seen
    IN  IF next = {} THEN seen ELSE ReachFrom(deps, next, seen \cup next)

\* every node reachable from x by one or more dependency edges
TransitiveDeps(deps, x) == ReachFrom(deps, {x}, {})

OnCycle(deps, x) == x \in TransitiveDeps(deps, x)

HasCycle(deps) == \E x \in DOMAIN deps : OnCycle(deps, x)

AllDeclared(deps) == \A x \in DOMAIN deps : Range(deps[x]) \subseteq DOMAIN deps


(***************************************************************************)
(* Embedder tasks and the capabilities the children report.                *)
(***************************************************************************)
Callers == {"c1", "c2"}

\* MCPProtocol.create_*_request: JSONRPCMessage.generate_id() gives each call
\* its own id; the request dict, and so the id, is reused by every retry
RequestId(c) == c

\* RequestRouter._retry_config["max_retries"]
MaxRetries == 3

\* result payloads a child may answer with
Payloads == {"v1", "v2"}

\* what each child reports in its */list responses
Caps ==
    [n \in Names |->
        IF n = "a" THEN [tool |-> {"add"}, prompt |-> {"hello"}, resource |-> {"file"}]
        ELSE IF n = "b" THEN [tool |-> {"add", "mul"}, prompt |-> {"hello"}, resource |-> {}]
        ELSE [tool |-> {"add", "sub"}, prompt |-> {}, resource |-> {}]]

\* a capability name as the embedder writes it: <<server prefix or "", name>>
Bare(x) == <<"", x>>
Qualified(s, x) == <<s, x>>

\* the `error` objects a child may answer with: its message is quoted in the
\* ValidationError execute_with_timeout raises, and may hold the word
\* "connection" that execute_with_retry takes for the sign of a crash
ServerErrors == {"error", "error:connection"}

\* a response line that _handle_message completes the wait with and that
\* JSONRPCMessage.validate_message rejects: it has no "jsonrpc": "2.0"
ProtocolErrors == {"invalid"}

\* JSON values as json.loads gives them to call_tool: 2, "two", true
JsonNumber == [json |-> "number", py |-> "int"]

JsonString == [json |-> "string", py |-> "str"]

JsonTrue == [json |-> "boolean", py |-> "bool"]

\* a params dict holding `value` under each of `keys`
Params(keys, value) == [k \in keys |-> value]

NoArguments == Params({}, JsonNumber)

GoodArguments == Params({"a"}, JsonNumber)

\* the arguments of a call_tool: {}, {a: 2}, {a: "two"}, {a: true}
ToolArguments ==
    {NoArguments, GoodArguments, Params({"a"}, JsonString), Params({"a"}, JsonTrue)}

\* the inputSchema every tool of Caps declares:
\* {required: [a], properties: {a: {type: number}}}
InputSchema == [required |-> {"a"}, properties |-> [a |-> "number"]]

\* Tool._check_type's type_map, for the scalar JSON types
TypeMap ==
    [string |-> {"str"}, number |-> {"int", "float"}, integer |-> {"int"},
     boolean |-> {"bool"}]

\* Python's isinstance: bool is a subclass of int
IsInstance(value, classes) ==
    value.py \in classes \/ (value.py = "bool" /\ "int" \in classes)

\* Tool._check_type
CheckType(value, expected_type) ==
    IF expected_type \in DOMAIN TypeMap
    THEN IsInstance(value, TypeMap[expected_type])
    ELSE TRUE

\* Tool.validate_params on a non-empty inputSchema
ValidateParams(schema, params) ==
    /\ \A req \in schema.required : req \in DOMAIN params
    /\ \A key \in DOMAIN params :
          key \in DOMAIN schema.properties
              => CheckType(params[key], schema.properties[key])

IdleCall ==
    [pc |-> "idle", kind |-> "none", name |-> Bare(""), server |-> "none",
     attempt |-> 0, sent |-> 0, outcome |-> "none", got |-> "none",
     payload |-> "none", arguments |-> NoArguments, gen |-> 0]

Done(rec, outcome) == [rec EXCEPT !.pc = "done", !.outcome = outcome]

\* an error that would be followed by a backoff and a further attempt
RetryOnError(rec, outcome) ==
    IF rec.attempt < MaxRetries THEN [rec EXCEPT !.pc = "backoff"]
    ELSE Done(rec, outcome)

\* execute_with_retry's `except Exception`: the error (as it is, or wrapped
\* in a ServerUnavailableError) is raised out of the retry loop
AfterError(rec, outcome) == Done(rec, outcome)

(***************************************************************************)
(* CapabilityRegistry                                                      *)
(***************************************************************************)
NotFound == [kind |-> "not_found", server |-> "none", servers |-> {}]

\* CapabilityRegistry.unregister_server left out
UnregisterServerSkipped(reg, name) == reg

\* CapabilityRegistry.unregister_server
UnregisterServer(reg, name) == reg \ {name}

\* CapabilityRegistry.register_server
RegisterServer(reg, name) == reg \cup {name}

\* a bare-name search that settles for its first match
FindNamedFirst(reg, category, name) ==
    IF name[1] # ""
    THEN IF name[1] \in reg /\ name[2] \in Caps[name[1]][category]
         THEN [kind |-> "found", server |-> name[1], servers |-> {name[1]}]
         ELSE NotFound
    ELSE LET matches == {s \in reg : name[2] \in Caps[s][category]}
         IN  IF matches = {} THEN NotFound
             ELSE [kind |-> "found", server |-> CHOOSE s \in matches : TRUE,
                   servers |-> matches]

\* CapabilityRegistry.find_tool / find_prompt (the same code for both lists)
FindNamed(reg, category, name) ==
    IF name[1] # ""
    THEN IF name[1] \in reg /\ name[2] \in Caps[name[1]][category]
         THEN [kind |-> "found", server |-> name[1], servers |-> {name[1]}]
         ELSE NotFound
    ELSE LET matches == {s \in reg : name[2] \in Caps[s][category]}
         IN  IF matches = {} THEN NotFound
             ELSE IF Cardinality(matches) > 1
                  THEN [kind |-> "ambiguous", server |-> "none", servers |-> matches]
                  ELSE [kind |-> "found", server |-> CHOOSE s \in matches : TRUE,
                        servers |-> matches]

\* CapabilityRegistry.find_resource: the URI is looked up as written
FindResource(reg, uri) ==
    LET matches == {s \in reg : uri[1] = "" /\ uri[2] \in Caps[s].resource}
    IN  IF matches = {} THEN NotFound
        ELSE [kind |-> "found", server |-> CHOOSE s \in matches : TRUE,
              servers |-> matches]

Find(reg, category, name) ==
    IF category = "resource" THEN FindResource(reg, name)
    ELSE FindNamed(reg, category, name)

(***************************************************************************)
(* ServerProcess: construction, start and shutdown                         *)
(***************************************************************************)
NoServerProcesses ==
    /\ servers = {}
    /\ srvState = [n \in Names |-> "none"]
    /\ procState = [n \in Names |-> "none"]
    /\ stdinOpen = [n \in Names |-> FALSE]
    /\ readerOn = [n \in Names |-> FALSE]
    /\ shutPc = [n \in Names |-> "idle"]
    /\ pending = [n \in Names |-> {}]
    /\ registry = {}
    /\ spawned = [n \in Names |-> 0]
    /\ exited = [n \in Names |-> 0]

NoCalls ==
    /\ call = [c \in Callers |-> IdleCall]
    /\ received = [n \in Names |-> {}]
    /\ cache = <<>>
    /\ ttlElapsed = {}
    /\ lost = {}

\* ServerProcess.shutdown up to `await self._read_task`: the state is set and
\* the stdout reader is cancelled
ShutdownBegin(s) ==
    /\ hostPc = "shutdown_all"
    /\ s \in servers \cup overlap.first
    /\ shutPc[s] = "idle"
    /\ srvState' = [srvState EXCEPT ![s] = "shutdown"]
    /\ readerOn' = [readerOn EXCEPT ![s] = FALSE]
    /\ shutPc' = [shutPc EXCEPT ![s] = "begun"]
    /\ UNCHANGED <<servers, procState, stdinOpen, pending, registry, spawned, exited>>
    /\ UNCHANGED <<auxVars, cfgVars, hostVars, callVars>>

\* ... up to `await self.process.wait()`: stdin is closed
ShutdownCloseStdin(s) ==
    /\ hostPc = "shutdown_all"
    /\ shutPc[s] = "begun"
    /\ stdinOpen' = [stdinOpen EXCEPT ![s] = FALSE]
    /\ shutPc' = [shutPc EXCEPT ![s] = "closed"]
    /\ UNCHANGED <<servers, srvState, procState, readerOn, pending, registry,
                   spawned, exited>>
    /\ UNCHANGED <<auxVars, cfgVars, hostVars, callVars>>

\* the slots ServerProcess.shutdown cancels: every future still in the table
CancelledNone(table) == {}

CancelledSlots(table) == table

\* ... the child has exited (by itself or killed); every future left in the
\* table is cancelled and the table is cleared.  A writer suspended in drain()
\* is woken when the closed pipe flushes or breaks, and runs before the wait
\* for the child's exit returns.
ShutdownFinish(s) ==
    /\ hostPc = "shutdown_all"
    /\ shutPc[s] = "closed"
    /\ \A c \in Callers : ~(call[c].pc = "drain" /\ call[c].server = s)
    /\ procState' = [procState EXCEPT ![s] = "exited"]
    /\ exited' = [exited EXCEPT ![s] = IF procState[s] = "running" THEN @ + 1 ELSE @]
    /\ call' = [c \in Callers |->
                  IF /\ call[c].pc = "wait"
                     /\ call[c].server = s
                     /\ RequestId(c) \in CancelledSlots(pending[s])
                  THEN Done(call[c], "cancelled")
                  ELSE call[c]]
    /\ pending' = [pending EXCEPT ![s] = {}]
    /\ shutPc' = [shutPc EXCEPT ![s] = "done"]
    /\ UNCHANGED <<servers, srvState, stdinOpen, readerOn, registry, spawned>>
    /\ UNCHANGED <<auxVars, cfgVars, hostVars, received, cache, ttlElapsed, lost>>

(***************************************************************************)
(* MCPHost.initialize and MCPHost.shutdown                                 *)
(***************************************************************************)
\* most initialize()/shutdown() calls the embedder makes
MaxHostCalls == 3

\* `if self._shutdown: return` at the top of MCPHost.shutdown
ShutdownLatched(flag) == flag

\* initialize()'s `except Exception`: await self.shutdown(), then re-raise.
\* shutdown() stops the cache sweeper and awaits ServerManager.shutdown_all,
\* which with no server clears the dict at once.
FailInitialize(error) ==
    IF ShutdownLatched(hShutdown)
    THEN /\ hostPc' = "idle"
         /\ lastResult' = error
         /\ UNCHANGED <<hShutdown, hInitialized, cleanupOn, pendingRaise>>
    ELSE IF servers = {}
         THEN /\ hostPc' = "idle"
              /\ lastResult' = error
              /\ hShutdown' = TRUE
              /\ hInitialized' = FALSE
              /\ cleanupOn' = FALSE
              /\ UNCHANGED pendingRaise
         ELSE /\ hostPc' = "shutdown_all"
              /\ pendingRaise' = error
              /\ cleanupOn' = FALSE
              /\ UNCHANGED <<lastResult, hShutdown, hInitialized>>

\* MCPHost.initialize up to the first `await self._start_server(...)`
InitializeCall ==
    /\ hostPc = "idle"
    /\ hostCalls < MaxHostCalls
    /\ hostCalls' = hostCalls + 1
    /\ IF hInitialized
       THEN /\ lastResult' = "initialize_noop"
            /\ UNCHANGED <<hInitialized, hShutdown, hostPc, startIdx, pendingRaise,
                           spawnLog, cleanupOn, loadResult, startupOrder>>
       ELSE /\ loadResult' = Load(config)
            /\ IF Load(config) # NoError
               THEN /\ FailInitialize("configuration_error")
                    /\ UNCHANGED <<startIdx, spawnLog, startupOrder>>
               ELSE /\ startupOrder' = GetStartupOrder(config)
                    /\ cleanupOn' = TRUE
                    /\ spawnLog' = <<>>
                    /\ startIdx' = 1
                    /\ IF GetStartupOrder(config) = <<>>
                       THEN /\ hInitialized' = TRUE
                            /\ hostPc' = "idle"
                            /\ lastResult' = "initialize_ok"
                       ELSE /\ hostPc' = "create_server"
                            /\ UNCHANGED <<hInitialized, lastResult>>
                    /\ UNCHANGED <<hShutdown, pendingRaise>>
    /\ UNCHANGED <<auxVars, config, cfgPc, srvVars, callVars>>

\* _start_server: ServerManager.create_server spawns the child, stores the
\* ServerProcess and initialize_server writes the initialize request
CreateServerOk ==
    /\ hostPc = "create_server"
    /\ LET name == startupOrder[startIdx]
       IN  /\ servers' = servers \cup {name}
           /\ srvState' = [srvState EXCEPT ![name] = "starting"]
           /\ procState' = [procState EXCEPT ![name] = "running"]
           /\ stdinOpen' = [stdinOpen EXCEPT ![name] = TRUE]
           /\ readerOn' = [readerOn EXCEPT ![name] = TRUE]
           /\ shutPc' = [shutPc EXCEPT ![name] = "idle"]
           /\ pending' = [pending EXCEPT ![name] = {}]
           /\ spawned' = [spawned EXCEPT ![name] = @ + 1]
           /\ spawnLog' = Append(spawnLog, name)
           /\ wire' = [wire EXCEPT ![name] = <<"initialize">>]
    /\ hostPc' = "initialize_server"
    /\ UNCHANGED <<hInitialized, hShutdown, startIdx, pendingRaise, hostCalls,
                   lastResult, cleanupOn, registry, exited>>
    /\ UNCHANGED <<lruLog, lookup, envLoad, metrics, overlap, reader, caps, backoff>>
    /\ UNCHANGED <<cfgVars, callVars>>

\* ServerProcess.start raises (command not found): nothing is stored
CreateServerFail ==
    /\ hostPc = "create_server"
    /\ FailInitialize("startup_error")
    /\ UNCHANGED <<startIdx, hostCalls, spawnLog>>
    /\ UNCHANGED <<auxVars, cfgVars, srvVars, callVars>>

\* _start_server after create_server ... register_server, then the next
\* iteration of initialize()'s loop or its end
RegisterAndAdvance(name) ==
    /\ registry' = RegisterServer(registry, name)
    /\ IF startIdx = Len(startupOrder)
       THEN /\ hInitialized' = TRUE
            /\ hostPc' = "idle"
            /\ lastResult' = "initialize_ok"
            /\ UNCHANGED startIdx
       ELSE /\ startIdx' = startIdx + 1
            /\ hostPc' = "create_server"
            /\ UNCHANGED <<hInitialized, lastResult>>

\* what is written once the initialize result has been read:
\* initialize_server writes notifications/initialized, and _start_server
\* then writes the */list request of the first category that is advertised
FramesAfterResult(advertised) ==
    IF advertised THEN <<"notifications/initialized", "list">>
    ELSE <<"notifications/initialized">>

\* initialize_server raises on an error response, and send_request raises
\* on a timeout: nothing more is written to the child
FramesAfterError(replied) == IF replied THEN <<"<error">> ELSE <<>>

\* initialize_server: a result arrives; notifications/initialized is written,
\* the state becomes READY; _start_server then either asks for the advertised
\* lists or registers at once
InitializeServerOk ==
    /\ hostPc = "initialize_server"
    /\ LET name == startupOrder[startIdx]
       IN  /\ srvState' = [srvState EXCEPT ![name] = "ready"]
           /\ \E advertised \in BOOLEAN :
                /\ wire' = [wire EXCEPT ![name] =
                               @ \o <<"<result">> \o FramesAfterResult(advertised)]
                /\ IF advertised
                   THEN /\ hostPc' = "list_capabilities"
                        /\ UNCHANGED <<registry, hInitialized, lastResult, startIdx>>
                   ELSE RegisterAndAdvance(name)
    /\ UNCHANGED <<hShutdown, pendingRaise, hostCalls, spawnLog, cleanupOn>>
    /\ UNCHANGED <<servers, procState, stdinOpen, readerOn, shutPc, pending,
                   spawned, exited>>
    /\ UNCHANGED <<lruLog, lookup, envLoad, metrics, overlap, reader, caps, backoff>>
    /\ UNCHANGED <<cfgVars, callVars>>

\* initialize_server: an error response, or no response within the timeout
InitializeServerFail ==
    /\ hostPc = "initialize_server"
    /\ FailInitialize("startup_error")
    /\ \E replied \in BOOLEAN :
          wire' = [wire EXCEPT ![startupOrder[startIdx]] =
                      @ \o FramesAfterError(replied)]
    /\ UNCHANGED <<startIdx, hostCalls, spawnLog>>
    /\ UNCHANGED <<lruLog, lookup, envLoad, metrics, overlap, reader, caps, backoff>>
    /\ UNCHANGED <<cfgVars, srvVars, callVars>>

\* _start_server: the */list responses arrive
ListCapabilitiesOk ==
    /\ hostPc = "list_capabilities"
    /\ RegisterAndAdvance(startupOrder[startIdx])
    /\ UNCHANGED <<hShutdown, pendingRaise, hostCalls, spawnLog, cleanupOn>>
    /\ UNCHANGED <<servers, srvState, procState, stdinOpen, readerOn, shutPc,
                   pending, spawned, exited>>
    /\ UNCHANGED <<auxVars, cfgVars, callVars>>

\* _start_server: a */list request times out or its items do not parse
ListCapabilitiesFail ==
    /\ hostPc = "list_capabilities"
    /\ FailInitialize("startup_error")
    /\ UNCHANGED <<startIdx, hostCalls, spawnLog>>
    /\ UNCHANGED <<auxVars, cfgVars, srvVars, callVars>>

\* MCPHost.shutdown up to `await self.server_manager.shutdown_all()`
ShutdownCall ==
    /\ hostPc = "idle"
    /\ hostCalls < MaxHostCalls
    /\ hostCalls' = hostCalls + 1
    /\ IF ShutdownLatched(hShutdown)
       THEN /\ lastResult' = "shutdown_noop"
            /\ UNCHANGED <<hInitialized, hShutdown, hostPc, cleanupOn>>
       ELSE /\ cleanupOn' = FALSE
            /\ IF servers = {}
               THEN /\ hShutdown' = TRUE
                    /\ hInitialized' = FALSE
                    /\ lastResult' = "shutdown_done"
                    /\ UNCHANGED hostPc
               ELSE /\ hostPc' = "shutdown_all"
                    /\ UNCHANGED <<hInitialized, hShutdown, lastResult>>
    /\ pendingRaise' = "none"
    /\ UNCHANGED <<startIdx, spawnLog>>
    /\ UNCHANGED <<auxVars, cfgVars, srvVars, callVars>>

ServersKept(table) == table

\* ServerManager.shutdown_all: self.servers.clear()
ServersCleared(table) == {}

\* shutdown_all's gather has returned: servers.clear(), the flags are set, and
\* an initialize() that called shutdown() re-raises its exception
ShutdownAllDone ==
    /\ hostPc = "shutdown_all"
    /\ \A s \in servers \cup overlap.first : shutPc[s] = "done"
    /\ servers' = ServersCleared(servers)
    /\ hShutdown' = TRUE
    /\ hInitialized' = FALSE
    /\ hostPc' = "idle"
    /\ lastResult' = IF pendingRaise # "none" THEN pendingRaise ELSE "shutdown_done"
    /\ pendingRaise' = "none"
    /\ UNCHANGED <<startIdx, hostCalls, spawnLog, cleanupOn>>
    /\ UNCHANGED <<srvState, procState, stdinOpen, readerOn, shutPc, pending,
                   registry, spawned, exited>>
    /\ UNCHANGED <<auxVars, cfgVars, callVars>>

\* the ServerProcess the overlapping call's coroutine holds is still the one
\* the model follows under that name (no initialize() has replaced it)
SameProcess(s) == spawned[s] = overlap.spawned[s]

\* a second MCPHost.shutdown call made while the first is suspended in
\* shutdown_all: _shutdown is still False, so it stops the cache sweeper
\* again and gathers a ServerProcess.shutdown for every server in the dict
OverlapShutdownCall ==
    /\ hostPc = "shutdown_all"
    /\ overlap.pc = "none"
    /\ hostCalls < MaxHostCalls
    /\ hostCalls' = hostCalls + 1
    /\ cleanupOn' = FALSE
    /\ overlap' = [pc |-> "shutdown_all", first |-> servers,
                   shutPc |-> [n \in Names |-> "idle"], spawned |-> spawned,
                   calls |-> hostCalls + 1, result |-> "none"]
    /\ UNCHANGED <<hInitialized, hShutdown, hostPc, startIdx, pendingRaise,
                   lastResult, spawnLog>>
    /\ UNCHANGED <<reader, wire, caps, backoff, lruLog, lookup, envLoad, metrics, cfgVars, srvVars, callVars>>

\* its ServerProcess.shutdown up to `await self._read_task`
OverlapBegin(s) ==
    /\ overlap.pc = "shutdown_all"
    /\ s \in overlap.first
    /\ overlap.shutPc[s] = "idle"
    /\ overlap' = [overlap EXCEPT !.shutPc[s] = "begun"]
    /\ IF SameProcess(s)
       THEN /\ srvState' = [srvState EXCEPT ![s] = "shutdown"]
            /\ readerOn' = [readerOn EXCEPT ![s] = FALSE]
       ELSE UNCHANGED <<srvState, readerOn>>
    /\ UNCHANGED <<servers, procState, stdinOpen, shutPc, pending, registry,
                   spawned, exited>>
    /\ UNCHANGED <<reader, wire, caps, backoff, lruLog, lookup, envLoad, metrics, cfgVars, hostVars, callVars>>

\* ... up to `await self.process.wait()`: stdin is closed (again)
OverlapCloseStdin(s) ==
    /\ overlap.pc = "shutdown_all"
    /\ overlap.shutPc[s] = "begun"
    /\ overlap' = [overlap EXCEPT !.shutPc[s] = "closed"]
    /\ stdinOpen' = IF SameProcess(s) THEN [stdinOpen EXCEPT ![s] = FALSE]
                    ELSE stdinOpen
    /\ UNCHANGED <<servers, srvState, procState, readerOn, shutPc, pending,
                   registry, spawned, exited>>
    /\ UNCHANGED <<reader, wire, caps, backoff, lruLog, lookup, envLoad, metrics, cfgVars, hostVars, callVars>>

\* ... the child has exited: the futures left in the table are cancelled and
\* the table is cleared
OverlapFinish(s) ==
    /\ overlap.pc = "shutdown_all"
    /\ overlap.shutPc[s] = "closed"
    /\ overlap' = [overlap EXCEPT !.shutPc[s] = "done"]
    /\ IF SameProcess(s)
       THEN /\ procState' = [procState EXCEPT ![s] = "exited"]
            /\ exited' = [exited EXCEPT ![s] =
                             IF procState[s] = "running" THEN @ + 1 ELSE @]
            /\ call' = [c \in Callers |->
                          IF /\ call[c].pc = "wait"
                             /\ call[c].server = s
                             /\ RequestId(c) \in CancelledSlots(pending[s])
                          THEN Done(call[c], "cancelled")
                          ELSE call[c]]
            /\ pending' = [pending EXCEPT ![s] = {}]
       ELSE UNCHANGED <<procState, exited, call, pending>>
    /\ UNCHANGED <<servers, srvState, stdinOpen, readerOn, shutPc, registry, spawned>>
    /\ UNCHANGED <<reader, wire, caps, backoff, lruLog, lookup, envLoad, metrics, cfgVars, hostVars, received,
                   cache, ttlElapsed, lost>>

\* its gather has returned: servers.clear(), the flags are set, None is
\* returned
OverlapAllDone ==
    /\ overlap.pc = "shutdown_all"
    /\ \A s \in overlap.first : overlap.shutPc[s] = "done"
    /\ overlap' = [overlap EXCEPT !.pc = "done", !.result = "shutdown_done"]
    /\ servers' = ServersCleared(servers)
    /\ hShutdown' = TRUE
    /\ hInitialized' = FALSE
    /\ UNCHANGED <<hostPc, startIdx, pendingRaise, hostCalls, lastResult, spawnLog,
                   cleanupOn>>
    /\ UNCHANGED <<srvState, procState, stdinOpen, readerOn, shutPc, pending,
                   registry, spawned, exited>>
    /\ UNCHANGED <<reader, wire, caps, backoff, lruLog, lookup, envLoad, metrics, cfgVars, callVars>>

(***************************************************************************)
(* Cache: an OrderedDict of entries [key, value, fresh]; `fresh` stands    *)
(* for time.time() - created_at <= ttl.                                    *)
(***************************************************************************)
\* MCPHost.__init__: cache_max_size
CacheMaxSize == 1000

CacheKeys(c) == {c[i].key : i \in 1..Len(c)}

CacheEntry(c, key) == c[CHOOSE i \in 1..Len(c) : c[i].key = key]

CacheWithout(c, key) == SelectSeq(c, LAMBDA e : e.key # key)

\* a lookup that finds nothing
CacheGetMiss(c, key) == [hit |-> FALSE, value |-> "none", cache |-> c]

\* a hit that leaves the entry where it is
CacheGetNoMove(c, key) ==
    IF key \notin CacheKeys(c) THEN [hit |-> FALSE, value |-> "none", cache |-> c]
    ELSE IF ~CacheEntry(c, key).fresh
         THEN [hit |-> FALSE, value |-> "none", cache |-> CacheWithout(c, key)]
         ELSE [hit |-> TRUE, value |-> CacheEntry(c, key).value, cache |-> c]

\* Cache.get: an expired entry is deleted, a live one moves to the end
CacheGet(c, key) ==
    IF key \notin CacheKeys(c) THEN [hit |-> FALSE, value |-> "none", cache |-> c]
    ELSE IF ~CacheEntry(c, key).fresh
         THEN [hit |-> FALSE, value |-> "none", cache |-> CacheWithout(c, key)]
         ELSE [hit |-> TRUE, value |-> CacheEntry(c, key).value,
               cache |-> Append(CacheWithout(c, key), CacheEntry(c, key))]

\* a store that never evicts
CacheSetNoEvict(c, max_size, key, value) ==
    Append(CacheWithout(c, key), [key |-> key, value |-> value, fresh |-> TRUE])

\* Cache.set: evict the first entry when full and the key is new, then store
\* the entry at the end
CacheSet(c, max_size, key, value) ==
    LET kept == IF Len(c) >= max_size /\ key \notin CacheKeys(c) THEN Tail(c) ELSE c
    IN  Append(CacheWithout(kept, key), [key |-> key, value |-> value, fresh |-> TRUE])

\* Cache.invalidate
CacheInvalidate(c, key) == CacheWithout(c, key)

\* Cache.invalidate_server: keys starting "prompt:<server>." or
\* "resource:<server>:", that is, names written with that server's prefix
CacheInvalidateServer(c, server_name) ==
    SelectSeq(c, LAMBDA e : e.key[2][1] # server_name)

\* Cache.clear
CacheClear(c) == <<>>

\* Cache.cleanup_expired
CacheCleanupExpired(c) == SelectSeq(c, LAMBDA e : e.fresh)

\* f"prompt:{prompt_name}:{arguments}" / f"resource:{resource_uri}", with the
\* name as the caller wrote it; every call here passes the same arguments
CacheKey(kind, name) == <<kind, name>>

\* Cache(max_size=...) of the cache driven on its own
LruMaxSize == 2

\* most set and get calls made
MaxCacheOps == 4

LruKeys ==
    {CacheKey("prompt", Bare("hello")), CacheKey("prompt", Qualified("a", "hello")),
     CacheKey("resource", Bare("file")), CacheKey("resource", Qualified("a", "file"))}

\* what the Cache's user has done so far: a clock counting set and get calls,
\* per key the time of its latest set or hit, the key of the latest call if it
\* was a set, and the
\* keys stored so far while every call has been a set of a key not stored before
NoLruLog ==
    [clock |-> 0, last |-> [k \in LruKeys |-> 0], op |-> <<"none", "none">>,
     setsOnly |-> TRUE, inserted |-> <<>>]

\* no find_* call made yet
NoLookup == [category |-> "none", name |-> Bare(""), reg |-> {}, result |-> NotFound]

\* no configuration file loaded: an empty environment, no .env file
NoEnvLoad ==
    [pc |-> "new", environ |-> <<>>, exists |-> FALSE, file |-> <<>>, doc |-> <<>>,
     after |-> <<>>, result |-> <<>>]

\* types.py MetricsData(): the counts of a server nothing was recorded for
NoMetricsData == [request_count |-> 0, success_count |-> 0, error_count |-> 0]

\* MetricsCollector.__init__
NoMetrics == [n \in Names |-> NoMetricsData]

\* MetricsCollector.record_request
RecordRequest(m, server, success) ==
    [m EXCEPT ![server] =
        [request_count |-> @.request_count + 1,
         success_count |-> IF success THEN @.success_count + 1 ELSE @.success_count,
         error_count |-> IF success THEN @.error_count ELSE @.error_count + 1]]

\* no second shutdown() call has been made
NoOverlap ==
    [pc |-> "none", first |-> {}, shutPc |-> [n \in Names |-> "idle"],
     spawned |-> [n \in Names |-> 0], calls |-> 0, result |-> "none"]

\* notification types a server sends and the callbacks an embedder registers
NotificationTypes == {"progress", "log"}

Handlers == {"h1"}

\* RequestRouter.execute_with_retry(..., timeout: float = 30.0)
DefaultTimeout == 30

\* the timeouts an embedder passes to call_tool / get_prompt / read_resource
Timeouts == {5, DefaultTimeout}

\* MCPHost.__init__: _notification_handlers = {}; ServerProcess.__init__:
\* _notification_handler = None; nothing read from any stdout yet and no
\* routed call made
NoReader ==
    [handlers |-> [t \in NotificationTypes |-> <<>>],
     slot |-> [n \in Names |-> "none"],
     owed |-> {},
     delivered |-> {},
     junk |-> {},
     pendingAtJunk |-> [n \in Names |-> {}],
     eof |-> {},
     timeout |-> [c \in Callers |-> [asked |-> 0, bound |-> 0]]]

\* no child spawned yet, nothing written
NoWire == [n \in Names |-> <<>>]

Categories == <<"tools", "prompts", "resources">>

\* _start_server has not got its initialize response yet
NoCaps ==
    [pc |-> "new", advertised |-> {},
     shape |-> [k \in Range(Categories) |-> "none"],
     offered |-> [k \in Range(Categories) |-> {}],
     kept |-> [k \in Range(Categories) |-> {}],
     registered |-> [k \in Range(Categories) |-> {}]]

\* RequestRouter.__init__: _retry_config
DefaultRetryConfig ==
    [initial_delay |-> 1, max_delay |-> 30, exponential_base |-> 2,
     max_retries |-> MaxRetries]

NoBackoff ==
    [pc |-> "new", config |-> DefaultRetryConfig, delay |-> 0, attempt |-> 0,
     slept |-> <<>>]

MoreIdle ==
    /\ overlap = NoOverlap
    /\ reader = NoReader
    /\ caps = NoCaps
    /\ backoff = NoBackoff

AuxIdle ==
    /\ lruLog = NoLruLog
    /\ lookup = NoLookup
    /\ envLoad = NoEnvLoad
    /\ metrics = NoMetrics
    /\ MoreIdle

(***************************************************************************)
(* RequestRouter and ServerProcess.send_request                            *)
(***************************************************************************)
\* the calls the embedder makes: call_tool, get_prompt, read_resource
CallOptions ==
    {<<"tool", Bare("add")>>, <<"tool", Qualified("a", "add")>>,
     <<"prompt", Bare("hello")>>, <<"resource", Bare("file")>>}

IsCached(kind) == kind \in {"prompt", "resource"}

IsUnavailable(outcome) ==
    outcome \in {"unavailable:not_ready", "unavailable:timeout", "unavailable:crashed"}

\* MCPHost._check_initialized passes
HostUsable == hInitialized /\ ~hShutdown

\* one attempt of execute_with_retry up to the first suspension:
\* execute_with_timeout looks the server up, send_request -> send_message
\* writes the frame and awaits drain().  A KeyError is re-raised.  Once the
\* connection to the closed stdin is lost drain() raises
\* ConnectionResetError("Connection lost"), which the `except Exception`
\* branch takes for a crash; while the closed pipe is still flushing, the
\* write is dropped without an error and the caller goes on to wait.  Every
\* exception passes through `except Exception`, which records a failure.
\* `server.state = ServerState.UNAVAILABLE`: execute_with_retry holds the
\* ServerProcess it looked up when the call began (rec.gen), which is no
\* longer the one stored under the name once the server has been spawned again
MarkUnavailable(rec, s) ==
    IF spawned[s] = rec.gen THEN [srvState EXCEPT ![s] = "unavailable"]
    ELSE srvState

SendAttempt(c, rec) ==
    LET s == rec.server
    IN  IF s \notin servers
        THEN /\ call' = [call EXCEPT ![c] = AfterError(rec, "key_error")]
             /\ metrics' = RecordRequest(metrics, s, FALSE)
             /\ UNCHANGED <<received, srvState, registry>>
        ELSE IF stdinOpen[s]
             THEN /\ call' = [call EXCEPT ![c] = [rec EXCEPT !.pc = "drain",
                                                             !.sent = @ + 1]]
                  /\ received' = [received EXCEPT ![s] = @ \cup {RequestId(c)}]
                  /\ UNCHANGED <<srvState, registry, metrics>>
             ELSE \/ /\ call' = [call EXCEPT ![c] = AfterError(rec, "unavailable:crashed")]
                     /\ metrics' = RecordRequest(metrics, s, FALSE)
                     /\ srvState' = MarkUnavailable(rec, s)
                     /\ registry' = UnregisterServer(registry, s)
                     /\ UNCHANGED received
                  \/ /\ shutPc[s] \in {"closed", "closing"}
                     /\ call' = [call EXCEPT ![c] = [rec EXCEPT !.pc = "drain"]]
                     /\ UNCHANGED <<received, srvState, registry, metrics>>

\* MCPHost.call_tool / get_prompt / read_resource -> RequestRouter.route_*:
\* cache probe (prompts and resources), registry lookup, validation of the
\* arguments (tools), availability check, then the first attempt
RouteCall(c, kind, name, arguments) ==
    /\ call[c].pc = "idle"
    /\ LET rec == [call[c] EXCEPT !.kind = kind, !.name = name,
                                  !.arguments = arguments]
           probe == IF IsCached(kind) THEN CacheGet(cache, CacheKey(kind, name))
                    ELSE CacheGetMiss(cache, CacheKey(kind, name))
           found == Find(registry, kind, name)
       IN  IF ~HostUsable
           THEN /\ call' = [call EXCEPT ![c] = Done(rec, "runtime_error")]
                /\ UNCHANGED <<cache, received, srvState, registry, metrics>>
           ELSE /\ cache' = probe.cache
                /\ IF probe.hit
                   THEN /\ call' = [call EXCEPT ![c] =
                                       [Done(rec, "cached") EXCEPT !.payload = probe.value]]
                        /\ UNCHANGED <<received, srvState, registry, metrics>>
                   ELSE IF found.kind # "found"
                        THEN /\ call' = [call EXCEPT ![c] = Done(rec, "routing_error")]
                             /\ UNCHANGED <<received, srvState, registry, metrics>>
                        ELSE IF kind = "tool" /\ ~ValidateParams(InputSchema, arguments)
                        THEN /\ call' = [call EXCEPT ![c] =
                                            Done([rec EXCEPT !.server = found.server],
                                                 "validation_error")]
                             /\ UNCHANGED <<received, srvState, registry, metrics>>
                        ELSE IF found.server \notin servers
                                \/ srvState[found.server] # "ready"
                             THEN /\ call' = [call EXCEPT ![c] =
                                                Done([rec EXCEPT !.server = found.server],
                                                     "unavailable:not_ready")]
                                  /\ UNCHANGED <<received, srvState, registry, metrics>>
                             ELSE SendAttempt(c, [rec EXCEPT !.server = found.server,
                                                             !.gen = spawned[found.server]])
    /\ UNCHANGED <<servers, procState, stdinOpen, readerOn, shutPc, pending,
                   spawned, exited>>
    /\ UNCHANGED <<lruLog, lookup, envLoad, cfgVars, hostVars, ttlElapsed, lost>>

\* a call made with the default timeout
CallStart(c, kind, name, arguments) ==
    /\ RouteCall(c, kind, name, arguments)
    /\ UNCHANGED moreVars

\* the bound execute_with_retry hands to execute_with_timeout, send_request
\* and asyncio.wait_for when the embedder asked for `timeout`: call_tool,
\* get_prompt and read_resource call route_* without it, and route_* call
\* execute_with_retry(server_name, request), whose default applies
AttemptTimeout(timeout) == DefaultTimeout

\* MCPHost.call_tool / get_prompt / read_resource with a timeout argument
TimedCall(c, kind, name, arguments, timeout) ==
    /\ RouteCall(c, kind, name, arguments)
    /\ reader' = [reader EXCEPT !.timeout[c] =
                      [asked |-> timeout, bound |-> AttemptTimeout(timeout)]]
    /\ UNCHANGED <<overlap, wire, caps, backoff>>

\* send_request after drain() returns: wait_for_response stores the future
SendRegister(c) ==
    /\ call[c].pc = "drain"
    /\ call' = [call EXCEPT ![c].pc = "wait"]
    /\ pending' = [pending EXCEPT ![call[c].server] = @ \cup {RequestId(c)}]
    /\ UNCHANGED <<servers, srvState, procState, stdinOpen, readerOn, shutPc,
                   registry, spawned, exited>>
    /\ UNCHANGED <<auxVars, cfgVars, hostVars, received, cache, ttlElapsed, lost>>

\* drain() fails: the child exits without reading what is left in the closed
\* pipe, the BrokenPipeError reaches execute_with_retry's `except Exception`,
\* which records a failure; the error names neither "process" nor
\* "connection", and is re-raised as it is
DrainBroken(c) ==
    /\ call[c].pc = "drain"
    /\ shutPc[call[c].server] = "closed"
    /\ call' = [call EXCEPT ![c] = AfterError(call[c], "broken_pipe")]
    /\ metrics' = RecordRequest(metrics, call[c].server, FALSE)
    /\ UNCHANGED <<idleAux, cfgVars, hostVars, srvVars, received, cache, ttlElapsed, lost>>

\* ServerProcess._handle_message: the future stored under the message's id
SlotOf(table, msg_id) == IF msg_id \in table THEN {msg_id} ELSE {}

\* the child writes a response line carrying an id it has been sent (at any
\* time, in any order, possibly more than once) and _read_loop handles it:
\* the future under the id is popped and completed, or the response is
\* logged as one to an unknown request and dropped
Deliver(s, msg_id, payload) ==
    /\ readerOn[s]
    /\ procState[s] = "running"
    /\ msg_id \in received[s]
    /\ LET slot == SlotOf(pending[s], msg_id)
       IN  /\ pending' = [pending EXCEPT ![s] = @ \ slot]
           /\ call' = [c \in Callers |->
                         IF /\ RequestId(c) \in slot
                            /\ call[c].pc = "wait"
                            /\ call[c].server = s
                         THEN [call[c] EXCEPT !.pc = "resume", !.got = msg_id,
                                              !.payload = payload]
                         ELSE call[c]]
           /\ lost' = IF /\ slot = {}
                         /\ call[msg_id].pc = "drain"
                         /\ call[msg_id].server = s
                         /\ call[msg_id].attempt = 0
                      THEN lost \cup {msg_id}
                      ELSE lost
    /\ UNCHANGED <<servers, srvState, procState, stdinOpen, readerOn, shutPc,
                   registry, spawned, exited>>
    /\ UNCHANGED <<auxVars, cfgVars, hostVars, received, cache, ttlElapsed>>

StateReadyAgain(state) == "ready"

\* execute_with_retry's success path records a metric and returns: the
\* server's state is left as the earlier attempts made it
StateAfterResult(state) == state

\* the caller runs again with the response.  execute_with_timeout records a
\* success as soon as send_request returns, then parses the response: a
\* result is returned to execute_with_retry, which records a second success,
\* and route_prompt_request / route_resource_request cache it; an error is
\* raised as a ValidationError, for which `except Exception` records a
\* failure and, when the message has "process" or "connection" in it, marks
\* the server unavailable and unregisters it; a response that
\* validate_message rejects raises a ProtocolError, handled the same way
CallResume(c) ==
    /\ call[c].pc = "resume"
    /\ LET s == call[c].server
           sampled == RecordRequest(metrics, s, TRUE)
       IN  IF call[c].payload \notin ServerErrors \cup ProtocolErrors
           THEN /\ call' = [call EXCEPT ![c] = Done(call[c], "result")]
                /\ metrics' = RecordRequest(sampled, s, TRUE)
                /\ cache' = IF IsCached(call[c].kind)
                            THEN CacheSet(cache, CacheMaxSize,
                                          CacheKey(call[c].kind, call[c].name),
                                          call[c].payload)
                            ELSE cache
                /\ srvState' = [srvState EXCEPT ![s] = StateAfterResult(@)]
                /\ UNCHANGED registry
           ELSE /\ metrics' = RecordRequest(sampled, s, FALSE)
                /\ UNCHANGED cache
                /\ IF call[c].payload = "error:connection"
                   THEN /\ call' = [call EXCEPT ![c] =
                                           AfterError(call[c], "unavailable:crashed")]
                        /\ srvState' = MarkUnavailable(call[c], s)
                        /\ registry' = UnregisterServer(registry, s)
                   ELSE /\ call' = [call EXCEPT ![c] =
                                           AfterError(call[c],
                                                      IF call[c].payload \in ProtocolErrors
                                                      THEN "protocol_error"
                                                      ELSE "server_error")]
                        /\ UNCHANGED <<srvState, registry>>
    /\ UNCHANGED <<servers, procState, stdinOpen, readerOn, shutPc, pending,
                   spawned, exited>>
    /\ UNCHANGED <<idleAux, cfgVars, hostVars, received, ttlElapsed, lost>>

\* the timed-out slot left in the table
TimeoutCleanupSkipped(table, msg_id) == table

\* wait_for_response's `except asyncio.TimeoutError`: pop(msg_id, None)
TimeoutCleanup(table, msg_id) == table \ {msg_id}

\* asyncio.wait_for gives up: wait_for_response removes the slot and raises;
\* execute_with_retry's `except MCPTimeoutError` marks the server, records a
\* failure, unregisters the server and sleeps before the next attempt, or
\* raises after the last one
WaitTimeout(c) ==
    /\ call[c].pc = "wait"
    /\ LET s == call[c].server
       IN  /\ pending' = [pending EXCEPT ![s] = TimeoutCleanup(@, RequestId(c))]
           /\ srvState' = MarkUnavailable(call[c], s)
           /\ metrics' = RecordRequest(metrics, s, FALSE)
           /\ registry' = UnregisterServer(registry, s)
    /\ call' = [call EXCEPT ![c] =
                  IF call[c].attempt < MaxRetries
                  THEN [call[c] EXCEPT !.pc = "backoff"]
                  ELSE Done(call[c], "unavailable:timeout")]
    /\ UNCHANGED <<servers, procState, stdinOpen, readerOn, shutPc, spawned, exited>>
    /\ UNCHANGED <<idleAux, cfgVars, hostVars, received, cache, ttlElapsed, lost>>

\* asyncio.sleep(delay) returns: the next attempt of the loop
RetryAfterBackoff(c) ==
    /\ call[c].pc = "backoff"
    /\ SendAttempt(c, [call[c] EXCEPT !.attempt = @ + 1])
    /\ UNCHANGED <<servers, procState, stdinOpen, readerOn, shutPc, pending,
                   spawned, exited>>
    /\ UNCHANGED <<idleAux, cfgVars, hostVars, cache, ttlElapsed, lost>>

\* time passes: an entry is now older than its ttl
TtlElapses(key) ==
    /\ key \in CacheKeys(cache)
    /\ CacheEntry(cache, key).fresh
    /\ cache' = [i \in 1..Len(cache) |->
                   IF cache[i].key = key THEN [cache[i] EXCEPT !.fresh = FALSE]
                   ELSE cache[i]]
    /\ ttlElapsed' = ttlElapsed \cup {key}
    /\ UNCHANGED <<auxVars, cfgVars, hostVars, srvVars, call, received, lost>>

(***************************************************************************)
(* The stdout reader.  _read_loop reads one line at a time; a line is       *)
(* modelled by what JSONRPCMessage.decode and _handle_message make of it.   *)
(* Lines that carry the id of a request are handled by Deliver.             *)
(***************************************************************************)
\* registrations of one Host drawn
MaxHandlers == 2

\* a blank line, text that is not JSON, bytes that are not UTF-8, a JSON
\* number / null / true, a JSON array or string, an object without "id"
StdoutLines == {"empty", "invalid_json", "invalid_utf8", "scalar", "array",
                "notification"}

\* JSONRPCMessage.decode: strip, then json.loads; an empty string, a
\* JSONDecodeError and a UnicodeDecodeError become a ProtocolError, anything
\* json.loads accepts is returned, object or not
Decode(line) ==
    IF line \in {"empty", "invalid_json", "invalid_utf8"} THEN "protocol_error"
    ELSE line

\* ServerProcess._handle_message for a message without an id of ours:
\* `"id" in msg` raises TypeError for a number, null or a boolean and is
\* False for an array, a string without "id" in it and an object without the
\* key; then the server's own handler, if one was set, is awaited
HandleMessage(slot, msg) ==
    IF msg = "scalar" THEN "raised"
    ELSE IF slot = "none" THEN "ignored"
    ELSE IF slot = "raises" THEN "raised"
    ELSE "handled"

\* what one iteration of _read_loop's `while True` does with a line
ReadOutcome(slot, line) ==
    IF Decode(line) = "protocol_error" THEN "protocol_error"
    ELSE HandleMessage(slot, Decode(line))

ReaderStopsOnError(outcome) == outcome \in {"ignored", "handled"}

\* _read_loop: `except ProtocolError` and `except Exception` sit inside the
\* loop and only log
ReaderContinues(outcome) == TRUE

\* the MCPHost handlers invoked for a notification of a type: nothing reads
\* MCPHost._notification_handlers, and no ServerProcess is given a handler
\* by the Host
HostHandlersCalled(handlers, type) == {}

\* MCPHost.register_notification_handler
RegisterNotificationHandler(type, handler) ==
    /\ Len(reader.handlers["progress"]) + Len(reader.handlers["log"]) < MaxHandlers
    /\ reader' = [reader EXCEPT !.handlers[type] = Append(@, handler)]
    /\ UNCHANGED <<overlap, wire, caps, backoff, lruLog, lookup, envLoad, metrics>>
    /\ UNCHANGED <<cfgVars, hostVars, srvVars, callVars>>

\* ServerProcess.set_notification_handler, called by an embedder on a
\* ServerProcess of the manager (the package itself never calls it), with a
\* coroutine function that returns or one that raises
SetNotificationHandler(s, behaviour) ==
    /\ s \in servers
    /\ reader.slot[s] # behaviour
    /\ reader' = [reader EXCEPT !.slot[s] = behaviour]
    /\ UNCHANGED <<overlap, wire, caps, backoff, lruLog, lookup, envLoad, metrics>>
    /\ UNCHANGED <<cfgVars, hostVars, srvVars, callVars>>

\* the child writes a line that answers no request, and _read_loop handles it
ReadLine(s, line, type) ==
    /\ readerOn[s]
    /\ procState[s] = "running"
    /\ LET outcome == ReadOutcome(reader.slot[s], line)
           due == IF line = "notification"
                  THEN {<<h, s, type>> : h \in Range(reader.handlers[type])}
                  ELSE {}
           called == IF line = "notification"
                     THEN {<<h, s, type>> : h \in HostHandlersCalled(reader.handlers, type)}
                     ELSE {}
       IN  /\ readerOn' = [readerOn EXCEPT ![s] = ReaderContinues(outcome)]
           /\ reader' = [reader EXCEPT
                             !.owed = @ \cup due,
                             !.delivered = @ \cup called,
                             !.junk = IF outcome \in {"protocol_error", "raised"}
                                      THEN @ \cup {s} ELSE @,
                             !.pendingAtJunk[s] =
                                 IF outcome \in {"protocol_error", "raised"}
                                 THEN pending[s] ELSE @]
    /\ UNCHANGED <<servers, srvState, procState, stdinOpen, shutPc, pending,
                   registry, spawned, exited>>
    /\ UNCHANGED <<overlap, wire, caps, backoff, lruLog, lookup, envLoad, metrics>>
    /\ UNCHANGED <<cfgVars, hostVars, callVars>>

\* the child process dies; its end of the pipes is closed, and the stdin
\* transport notices (is_closing() becomes true)
ChildExits(s) ==
    /\ procState[s] = "running"
    /\ shutPc[s] = "idle"
    /\ procState' = [procState EXCEPT ![s] = "exited"]
    /\ exited' = [exited EXCEPT ![s] = @ + 1]
    /\ stdinOpen' = [stdinOpen EXCEPT ![s] = FALSE]
    /\ UNCHANGED <<servers, srvState, readerOn, shutPc, pending, registry, spawned>>
    /\ UNCHANGED <<auxVars, cfgVars, hostVars, callVars>>

\* _read_loop: readline() returns b"" (`if not line: ... break`); the task
\* ends, and nothing else is done
ReadEof(s) ==
    /\ readerOn[s]
    /\ procState[s] = "exited"
    /\ readerOn' = [readerOn EXCEPT ![s] = FALSE]
    /\ reader' = [reader EXCEPT !.eof = @ \cup {s}]
    /\ UNCHANGED <<servers, srvState, procState, stdinOpen, shutPc, pending,
                   registry, spawned, exited>>
    /\ UNCHANGED <<overlap, wire, caps, backoff, lruLog, lookup, envLoad, metrics>>
    /\ UNCHANGED <<cfgVars, hostVars, callVars>>

(***************************************************************************)
(* SpecConfig: load a configuration, then ask for the startup order.       *)
(***************************************************************************)
HostConstructed ==
    /\ hInitialized = FALSE
    /\ hShutdown = FALSE
    /\ hostPc = "idle"
    /\ startIdx = 1
    /\ pendingRaise = "none"
    /\ hostCalls = 0
    /\ lastResult = "none"
    /\ spawnLog = <<>>
    /\ cleanupOn = FALSE

CfgInit ==
    /\ config \in Configs
    /\ cfgPc = "new"
    /\ loadResult = NotLoaded
    /\ startupOrder = <<>>
    /\ HostConstructed
    /\ NoServerProcesses
    /\ NoCalls
    /\ AuxIdle
    /\ wire = NoWire

CfgLoad ==
    /\ cfgPc = "new"
    /\ loadResult' = Load(config)
    /\ cfgPc' = "loaded"
    /\ UNCHANGED <<auxVars, config, startupOrder, hostVars, srvVars, callVars>>

CfgGetStartupOrder ==
    /\ cfgPc = "loaded"
    /\ loadResult = NoError
    /\ startupOrder' = GetStartupOrder(config)
    /\ cfgPc' = "ordered"
    /\ UNCHANGED <<auxVars, config, loadResult, hostVars, srvVars, callVars>>

CfgNext == CfgLoad \/ CfgGetStartupOrder

SpecConfig == CfgInit /\ [][CfgNext]_vars

(***************************************************************************)
(* SpecHost: a freshly constructed Host and the embedder's initialize()    *)
(* and shutdown() calls, one after the other.                              *)
(***************************************************************************)
\* configurations whose dependencies all name declared servers
HostConfigs == [Names -> DepLists(Names)]

HostInit ==
    /\ config \in HostConfigs
    /\ cfgPc = "new"
    /\ loadResult = NotLoaded
    /\ startupOrder = <<>>
    /\ HostConstructed
    /\ NoServerProcesses
    /\ NoCalls
    /\ AuxIdle
    /\ wire = NoWire

HostNext ==
    \/ InitializeCall
    \/ CreateServerOk
    \/ CreateServerFail
    \/ InitializeServerOk
    \/ InitializeServerFail
    \/ ListCapabilitiesOk
    \/ ListCapabilitiesFail
    \/ ShutdownCall
    \/ \E s \in Names : ShutdownBegin(s)
    \/ \E s \in Names : ShutdownCloseStdin(s)
    \/ \E s \in Names : ShutdownFinish(s)
    \/ ShutdownAllDone

SpecHost == HostInit /\ [][HostNext]_vars

\* SpecShutdown: the Host of SpecHost over a configuration without
\* dependencies, with a second shutdown() that may start while the first one
\* is suspended in shutdown_all
ShutdownInit ==
    /\ HostInit
    /\ config = [n \in Names |-> <<>>]

ShutdownNext ==
    \/ InitializeCall
    \/ CreateServerOk
    \/ CreateServerFail
    \/ InitializeServerOk
    \/ InitializeServerFail
    \/ ListCapabilitiesOk
    \/ ListCapabilitiesFail
    \/ ShutdownCall
    \/ \E s \in Names : ShutdownBegin(s)
    \/ \E s \in Names : ShutdownCloseStdin(s)
    \/ \E s \in Names : ShutdownFinish(s)
    \/ ShutdownAllDone
    \/ OverlapShutdownCall
    \/ \E s \in Names : OverlapBegin(s)
    \/ \E s \in Names : OverlapCloseStdin(s)
    \/ \E s \in Names : OverlapFinish(s)
    \/ OverlapAllDone

SpecShutdown == ShutdownInit /\ [][ShutdownNext]_vars

(***************************************************************************)
(* Claims about the Host's lifecycle (SpecHost)                            *)
(***************************************************************************)
AllChildrenExited == \A n \in Names : exited[n] = spawned[n]

IsPrefix(p, q) == Len(p) <= Len(q) /\ p = SubSeq(q, 1, Len(p))

\* C5: after any sequence of initialize() and shutdown() calls that ends with a
\* shutdown() call returning, every child process the Host has spawned has
\* exited.
C5_ShutdownLeavesNoChild ==
    (hostPc = "idle" /\ lastResult \in {"shutdown_done", "shutdown_noop"})
        => AllChildrenExited

\* C7: when starting or initializing a server fails during initialize(), no
\* server later in the startup order has been spawned, every server spawned
\* has been shut down by the time initialize() raises, and the Host is left
\* not initialized.
C7_FailedStartupTornDown ==
    (hostPc = "idle" /\ lastResult = "startup_error")
        => /\ IsPrefix(spawnLog, startupOrder)
           /\ Len(spawnLog) <= startIdx
           /\ AllChildrenExited
           /\ ~hInitialized

\* C8: for a configuration that passes load(), get_startup_order returns every
\* declared server exactly once, each after every server in its transitive
\* dependencies, and the Host spawns the servers in exactly that order.
C8_TopologicalStartup ==
    loadResult = NoError
        => /\ Range(startupOrder) = DOMAIN config
           /\ IsInjective(startupOrder)
           /\ \A i, j \in 1..Len(startupOrder) :
                  startupOrder[j] \in TransitiveDeps(config, startupOrder[i]) => j < i
           /\ IsPrefix(spawnLog, startupOrder)
           /\ (hInitialized => spawnLog = startupOrder)

\* a chain c <- b <- a has been started in dependency order
C8_Witness ==
    /\ hInitialized
    /\ config["a"] = <<"b">>
    /\ config["b"] = <<"c">>
    /\ spawnLog = <<"c", "b", "a">>

\* C18: in every reachable state a server whose state is Ready has completed
\* the initialize / notifications/initialized handshake and has its capability
\* lists registered in the registry.
C18_ReadyIsRegistered ==
    \A n \in Names : srvState[n] = "ready" => n \in registry

\* C19: in every reachable state, after host shutdown as well, every server
\* name with an entry in the capability registry belongs to a server whose
\* state is Ready.
C19_RegisteredIsReady ==
    \A n \in registry : srvState[n] = "ready"

\* what one shutdown() call leaves of the servers in S: the Host flagged as
\* shut down, no server in the manager, the sweeper stopped, and every child
\* exited with its reader stopped, its stdin closed and its table empty
TornDown(S) ==
    /\ hShutdown
    /\ ~hInitialized
    /\ ~cleanupOn
    /\ servers = {}
    /\ \A n \in S : /\ srvState[n] = "shutdown"
                     /\ procState[n] = "exited"
                     /\ exited[n] = spawned[n]
                     /\ ~readerOn[n]
                     /\ ~stdinOpen[n]
                     /\ pending[n] = {}

\* the shutdown() that tore the servers down has returned, and so has the call
\* that overlapped it, if one was made; no other call was made since
BothReturned ==
    /\ hostPc = "idle"
    /\ lastResult = "shutdown_done"
    /\ overlap.pc \in {"none", "done"}
    /\ overlap.pc = "done" => hostCalls = overlap.calls

\* the servers a child was spawned for
EverSpawned == {n \in Names : spawned[n] > 0}

OverlapReturnedNormally == overlap.pc = "done" => overlap.result = "shutdown_done"

\* the step of a shutdown() call made right after a shutdown() has returned
SecondCallAfter ==
    /\ hostPc = "idle"
    /\ lastResult = "shutdown_done"
    /\ hostCalls' = hostCalls + 1
    /\ hostPc' = "idle"
    /\ lastResult' \in {"shutdown_noop", "shutdown_done"}

\* C21: shutdown() is idempotent.  A shutdown() that has torn the servers
\* down leaves TornDown; a second call made while it was in progress returns
\* normally and, once both have returned, the state is the same TornDown; a
\* second call made after it changes nothing.
C21_ShutdownIdempotent ==
    /\ [](BothReturned => (TornDown(EverSpawned) /\ OverlapReturnedNormally))
    /\ [][SecondCallAfter => UNCHANGED <<srvVars, hInitialized, hShutdown, cleanupOn>>]_vars

\* servers a and b were shut down by two overlapping calls, both returned
C21_Witness ==
    /\ hostPc = "idle"
    /\ lastResult = "shutdown_done"
    /\ overlap.pc = "done"
    /\ overlap.first = Names
    /\ hostCalls = overlap.calls
    /\ TornDown(Names)

Touched(log, op, key, hit) ==
    [clock |-> log.clock + 1,
     last |-> IF hit THEN [log.last EXCEPT ![key] = log.clock + 1] ELSE log.last,
     op |-> IF op = "set" THEN <<op, key>> ELSE <<"other", "none">>,
     setsOnly |-> log.setsOnly /\ op = "set" /\ key \notin Range(log.inserted),
     inserted |-> IF log.setsOnly /\ op = "set" /\ key \notin Range(log.inserted)
                  THEN Append(log.inserted, key) ELSE <<>>]

Removing(log, op, key) ==
    [log EXCEPT !.op = <<"other", "none">>, !.setsOnly = FALSE, !.inserted = <<>>]

CacheOpSet(key, value) ==
    /\ lruLog.clock < MaxCacheOps
    /\ cache' = CacheSet(cache, LruMaxSize, key, value)
    /\ lruLog' = Touched(lruLog, "set", key, TRUE)
    /\ UNCHANGED <<cfgVars, hostVars, srvVars, call, received, ttlElapsed, lost, lookup, envLoad, metrics, moreVars>>

CacheOpGet(key) ==
    /\ lruLog.clock < MaxCacheOps
    /\ cache' = CacheGet(cache, key).cache
    /\ lruLog' = Touched(lruLog, "get", key, CacheGet(cache, key).hit)
    /\ UNCHANGED <<cfgVars, hostVars, srvVars, call, received, ttlElapsed, lost, lookup, envLoad, metrics, moreVars>>

CacheOpInvalidate(key) ==
    /\ cache' = CacheInvalidate(cache, key)
    /\ lruLog' = Removing(lruLog, "invalidate", key)
    /\ UNCHANGED <<cfgVars, hostVars, srvVars, call, received, ttlElapsed, lost, lookup, envLoad, metrics, moreVars>>

CacheOpInvalidateServer(server_name) ==
    /\ cache' = CacheInvalidateServer(cache, server_name)
    /\ lruLog' = Removing(lruLog, "invalidate_server", server_name)
    /\ UNCHANGED <<cfgVars, hostVars, srvVars, call, received, ttlElapsed, lost, lookup, envLoad, metrics, moreVars>>

CacheOpClear ==
    /\ cache' = CacheClear(cache)
    /\ lruLog' = Removing(lruLog, "clear", "none")
    /\ UNCHANGED <<cfgVars, hostVars, srvVars, call, received, ttlElapsed, lost, lookup, envLoad, metrics, moreVars>>

CacheOpCleanupExpired ==
    /\ cache' = CacheCleanupExpired(cache)
    /\ lruLog' = Removing(lruLog, "cleanup_expired", "none")
    /\ UNCHANGED <<cfgVars, hostVars, srvVars, call, received, ttlElapsed, lost, lookup, envLoad, metrics, moreVars>>

CacheInit ==
    /\ config = [n \in Names |-> <<>>]
    /\ cfgPc = "new"
    /\ loadResult = NotLoaded
    /\ startupOrder = <<>>
    /\ HostConstructed
    /\ NoServerProcesses
    /\ NoCalls
    /\ AuxIdle
    /\ wire = NoWire

CacheNext ==
    \/ \E key \in LruKeys, value \in Payloads : CacheOpSet(key, value)
    \/ \E key \in LruKeys : CacheOpGet(key)
    \/ \E key \in LruKeys : CacheOpInvalidate(key)
    \/ \E server_name \in Names : CacheOpInvalidateServer(server_name)
    \/ CacheOpClear
    \/ CacheOpCleanupExpired
    \/ \E key \in LruKeys : TtlElapses(key)

SpecCache == CacheInit /\ [][CacheNext]_vars

LeastRecent(c, last) ==
    CHOOSE k \in CacheKeys(c) : \A j \in CacheKeys(c) : last[k] <= last[j]

LookupNames ==
    {Bare(x) : x \in {"add", "mul", "hello", "file", "nope"}}
        \cup {Qualified(n, x) : n \in {"a", "b"}, x \in {"add", "hello"}}

RegRegister(name) ==
    /\ registry' = RegisterServer(registry, name)
    /\ UNCHANGED <<servers, srvState, procState, stdinOpen, readerOn, shutPc,
                   pending, spawned, exited>>
    /\ UNCHANGED <<auxVars, cfgVars, hostVars, callVars>>

RegUnregister(name) ==
    /\ registry' = UnregisterServer(registry, name)
    /\ UNCHANGED <<servers, srvState, procState, stdinOpen, readerOn, shutPc,
                   pending, spawned, exited>>
    /\ UNCHANGED <<auxVars, cfgVars, hostVars, callVars>>

RegFind(category, name) ==
    /\ lookup' = [category |-> category, name |-> name, reg |-> registry,
                 result |-> Find(registry, category, name)]
    /\ UNCHANGED <<cfgVars, hostVars, srvVars, callVars, lruLog, envLoad, metrics, moreVars>>

RegInit == CacheInit

RegNext ==
    \/ \E name \in Names : RegRegister(name)
    \/ \E name \in Names : RegUnregister(name)
    \/ \E category \in {"tool", "prompt", "resource"}, name \in LookupNames :
          RegFind(category, name)

SpecRegistry == RegInit /\ [][RegNext]_vars

(***************************************************************************)
(* Claims about the registry (SpecRegistry)                                *)
(***************************************************************************)
\* the registered servers that declare a name in a category
Declaring(reg, category, x) == {s \in reg : x \in Caps[s][category]}

EnvNames == {"FOO", "BAR"}

Lit(c) == <<"lit", c>>

Tok(n) == <<"tok", n>>

\* config.py line 94: value[0] in ('"', "'")
IsQuote(p) == p \in {Lit("q"), Lit("s")}

UnquoteNever(value) == value

\* config.py lines 94-95: value[1:-1] when the first character is a quote and
\* equals the last one (for a one-character value they are the same character)
Unquote(value) ==
    IF Len(value) > 0 /\ IsQuote(value[1]) /\ value[1] = value[Len(value)]
    THEN SubSeq(value, 2, Len(value) - 1)
    ELSE value

\* os.environ[key] = value
EnvSet(environ, key, value) ==
    [n \in DOMAIN environ \cup {key} |-> IF n = key THEN value ELSE environ[n]]

\* os.environ.get(var_name, '')
EnvGet(environ, var_name) ==
    IF var_name \in DOMAIN environ THEN environ[var_name] ELSE <<>>

\* The lines of a .env file after line.strip(), partition('=') and the
\* strip() of both halves: an empty line, a comment, a line without '=',
\* or a key (possibly empty) and a raw value.
BlankLine == <<"blank">>

CommentLine == <<"comment">>

NoEqualsLine == <<"other">>

KeyValueLine(key, value) == <<"kv", key, value>>

IsKeyValue(line) == line[1] = "kv"

EnvSetAlways(environ, line) ==
    IF IsKeyValue(line) /\ line[2] # ""
    THEN EnvSet(environ, line[2], Unquote(line[3]))
    ELSE environ

\* config.py lines 80-99: one iteration of the loop over the file's lines
EnvLine(environ, line) ==
    IF IsKeyValue(line) /\ line[2] # "" /\ line[2] \notin DOMAIN environ
    THEN EnvSet(environ, line[2], Unquote(line[3]))
    ELSE environ

RECURSIVE EnvLines(_, _, _)
EnvLines(environ, file, i) ==
    IF i > Len(file) THEN environ
    ELSE EnvLines(EnvLine(environ, file[i]), file, i + 1)

\* ConfigLoader._load_env_file: a missing .env file changes nothing
LoadEnvFile(environ, exists, file) ==
    IF exists THEN EnvLines(environ, file, 1) ELSE environ

\* str.replace("${var_name}", env_value): every occurrence, in one pass
RECURSIVE Replace(_, _, _)
Replace(value, var_name, env_value) ==
    IF value = <<>> THEN <<>>
    ELSE IF Head(value) = Tok(var_name)
         THEN env_value \o Replace(Tail(value), var_name, env_value)
         ELSE <<Head(value)>> \o Replace(Tail(value), var_name, env_value)

\* re.findall(pattern, value): the variable names of the tokens, in order
Matches(value) == SelectSeq(value, LAMBDA p : p[1] = "tok")

\* config.py lines 268-277: one str.replace per match, each applied to the
\* result of the previous one
RECURSIVE ExpandLoop(_, _, _, _)
ExpandLoop(value, matches, i, environ) ==
    IF i > Len(matches) THEN value
    ELSE ExpandLoop(Replace(value, matches[i][2], EnvGet(environ, matches[i][2])),
                    matches, i + 1, environ)

ExpandEnvVars(value, environ) == ExpandLoop(value, Matches(value), 1, environ)

(***************************************************************************)
(* SpecEnv: ConfigLoader.load on a configuration file one of whose strings *)
(* is `doc`, next to a .env file of at most MaxEnvLines lines, in a        *)
(* process whose environment is `environ`.                                 *)
(***************************************************************************)
MaxEnvLines == 2

\* values the process environment holds: a word, or the empty string
SysValues == {<<Lit("S")>>, <<>>}

\* raw values in the .env file: empty, x, ", "", "x", 'x', "x', ""x"", ${BAR}
EnvFileValues ==
    {<<>>, <<Lit("x")>>, <<Lit("q")>>, <<Lit("q"), Lit("q")>>,
     <<Lit("q"), Lit("x"), Lit("q")>>, <<Lit("s"), Lit("x"), Lit("s")>>,
     <<Lit("q"), Lit("x"), Lit("s")>>,
     <<Lit("q"), Lit("q"), Lit("x"), Lit("q"), Lit("q")>>,
     <<Tok("BAR")>>}

EnvFileLines ==
    {BlankLine, CommentLine, NoEqualsLine}
        \cup {KeyValueLine(key, value) :
                 key \in EnvNames \cup {""}, value \in EnvFileValues}

Environs == UNION {[D -> SysValues] : D \in SUBSET EnvNames}

\* strings of the configuration: x, ${FOO}, x${FOO}, ${FOO}${FOO},
\* ${FOO}${BAR}, ${BAR}${FOO}
DocStrings ==
    {<<Lit("x")>>, <<Tok("FOO")>>, <<Lit("x"), Tok("FOO")>>,
     <<Tok("FOO"), Tok("FOO")>>, <<Tok("FOO"), Tok("BAR")>>,
     <<Tok("BAR"), Tok("FOO")>>}

EnvInit ==
    /\ HostConstructed
    /\ NoServerProcesses
    /\ NoCalls
    /\ config = [n \in Names |-> <<>>]
    /\ cfgPc = "new"
    /\ loadResult = NotLoaded
    /\ startupOrder = <<>>
    /\ lruLog = NoLruLog
    /\ lookup = NoLookup
    /\ metrics = NoMetrics
    /\ MoreIdle
    /\ wire = NoWire
    /\ \E environ \in Environs, exists \in BOOLEAN,
          file \in SeqsUpTo(EnvFileLines, MaxEnvLines), doc \in DocStrings :
          /\ exists \/ file = <<>>
          /\ envLoad = [pc |-> "new", environ |-> environ, exists |-> exists,
                        file |-> file, doc |-> doc, after |-> <<>>,
                        result |-> <<>>]

\* ConfigLoader.load: validation, then _load_env_file, then expand_env_vars
\* on the whole document, then _validate_dependencies
EnvLoad ==
    /\ envLoad.pc = "new"
    /\ LET after == LoadEnvFile(envLoad.environ, envLoad.exists, envLoad.file)
       IN  envLoad' = [envLoad EXCEPT !.pc = "loaded",
                                      !.after = after,
                                      !.result = ExpandEnvVars(envLoad.doc, after)]
    /\ cfgPc' = "loaded"
    /\ loadResult' = Load(config)
    /\ UNCHANGED <<config, startupOrder, lruLog, lookup, metrics, moreVars, hostVars, srvVars, callVars>>

EnvNext == EnvLoad

SpecEnv == EnvInit /\ [][EnvNext]_vars

(***************************************************************************)
(* Claims about .env loading (SpecEnv)                                     *)
(***************************************************************************)
\* the keys the .env file gives a value to
FileKeys(file) ==
    {file[i][2] : i \in {j \in DOMAIN file : IsKeyValue(file[j]) /\ file[j][2] # ""}}

\* every token replaced, at once, by what the environment holds for it
RECURSIVE Substituted(_, _)
Substituted(value, environ) ==
    IF value = <<>> THEN <<>>
    ELSE IF Head(value)[1] = "tok"
         THEN EnvGet(environ, Head(value)[2]) \o Substituted(Tail(value), environ)
         ELSE <<Head(value)>> \o Substituted(Tail(value), environ)

TokenNames(value) == {value[i][2] : i \in {j \in DOMAIN value : value[j][1] = "tok"}}

StripPair(value) ==
    IF Len(value) >= 2 /\ IsQuote(value[1]) /\ value[1] = value[Len(value)]
    THEN SubSeq(value, 2, Len(value) - 1)
    ELSE value

\* the same, except that a value that is one lone quote character becomes empty
StripEnds(value) ==
    IF Len(value) = 1 /\ IsQuote(value[1]) THEN <<>> ELSE StripPair(value)

\* the KEY=VALUE lines of the file whose key the process did not have set
FreshLines(e) ==
    {i \in DOMAIN e.file : /\ IsKeyValue(e.file[i])
                           /\ e.file[i][2] # ""
                           /\ e.file[i][2] \notin DOMAIN e.environ}

\* those of them that are the first line of the file for their key
FirstLines(e) ==
    {i \in FreshLines(e) : \A j \in FreshLines(e) : e.file[j][2] = e.file[i][2] => i <= j}

\* no value substituted into the string holds a token the string also holds
NothingRescanned(e) ==
    \A n \in TokenNames(e.doc) :
        TokenNames(EnvGet(e.after, n)) \cap TokenNames(e.doc) = {}

Running == {"a"}

\* the frames of a handshake that ended with the server Ready and its
\* advertised lists fetched
HandshakeDone == <<"initialize", "<result">> \o FramesAfterResult(TRUE)

Init ==
    /\ config = [n \in Running |-> <<>>]
    /\ cfgPc = "new"
    /\ loadResult = NoError
    /\ startupOrder = <<"a">>
    /\ hInitialized = TRUE
    /\ hShutdown = FALSE
    /\ hostPc = "idle"
    /\ startIdx = 1
    /\ pendingRaise = "none"
    /\ hostCalls = 1
    /\ lastResult = "initialize_ok"
    /\ spawnLog = <<"a">>
    /\ cleanupOn = TRUE
    /\ servers = Running
    /\ srvState = [n \in Names |-> IF n \in Running THEN "ready" ELSE "none"]
    /\ procState = [n \in Names |-> IF n \in Running THEN "running" ELSE "none"]
    /\ stdinOpen = [n \in Names |-> n \in Running]
    /\ readerOn = [n \in Names |-> n \in Running]
    /\ shutPc = [n \in Names |-> "idle"]
    /\ pending = [n \in Names |-> {}]
    /\ registry = Running
    /\ spawned = [n \in Names |-> IF n \in Running THEN 1 ELSE 0]
    /\ exited = [n \in Names |-> 0]
    /\ NoCalls
    /\ AuxIdle
    /\ wire = [n \in Names |-> IF n \in Running THEN HandshakeDone ELSE <<>>]

Next ==
    \/ \E c \in Callers, o \in CallOptions :
          CallStart(c, o[1], o[2], IF o[1] = "tool" THEN GoodArguments ELSE NoArguments)
    \/ \E c \in Callers : SendRegister(c)
    \/ \E c \in Callers : DrainBroken(c)
    \/ \E s \in Names, c \in Callers, v \in Payloads : Deliver(s, RequestId(c), v)
    \/ \E c \in Callers : CallResume(c)
    \/ \E c \in Callers : WaitTimeout(c)
    \/ \E c \in Callers : RetryAfterBackoff(c)
    \/ \E o \in CallOptions : TtlElapses(CacheKey(o[1], o[2]))
    \/ ShutdownCall
    \/ \E s \in Names : ShutdownBegin(s)
    \/ \E s \in Names : ShutdownCloseStdin(s)
    \/ \E s \in Names : ShutdownFinish(s)
    \/ ShutdownAllDone

Spec == Init /\ [][Next]_vars

(***************************************************************************)
(* Claims about routed calls (Spec)                                        *)
(***************************************************************************)
\* C1: with concurrent send_request calls carrying distinct ids and a child
\* replying in any order, every caller's wait completes with the response to
\* its own id (no response to a caller that is inside send_request is
\* discarded), and no caller receives a response carrying another id.
C1_Correlated ==
    /\ lost = {}
    /\ \A c \in Callers : call[c].got \in {"none", RequestId(c)}

\* C2: after a caller has observed a timeout, the server's pending-request
\* table holds no entry for its request id (until a retry waits again).
C2_TimeoutCleansSlot ==
    \A c \in Callers :
        (\/ call[c].pc = "backoff"
         \/ call[c].pc = "done" /\ call[c].outcome = "unavailable:timeout")
            => RequestId(c) \notin pending[call[c].server]

\* a caller has timed out once and sleeps before its retry
C2_Witness ==
    \E c \in Callers :
        /\ call[c].pc = "backoff"
        /\ call[c].attempt = 0
        /\ RequestId(c) \notin pending[call[c].server]

\* MCPHost.get_tools: the tools of every registered server
GetTools(reg) == UNION {{<<s, t>> : t \in Caps[s].tool} : s \in reg}

\* MCPHost.get_servers: the state of every server the manager holds
GetServers(srvs, st) == [s \in srvs |-> st[s]]

\* C3: when a routed call ends with the server-unavailable error of the retry
\* loop, it has timed out max_retries + 1 times in a row, and at that moment
\* the server's state is Unavailable (get_servers reports it so), the registry
\* holds no tool, prompt or resource of it (get_tools omits it): the
\* unregistration precedes the error.
C3_UnavailableAfterRetries ==
    [][\A c \in Callers :
          (call[c].pc # "done" /\ call'[c].pc = "done"
             /\ call'[c].outcome = "unavailable:timeout")
          => LET s == call'[c].server
             IN  /\ call'[c].attempt = MaxRetries
                 /\ srvState'[s] = "unavailable"
                 /\ s \in servers' => GetServers(servers', srvState')[s] = "unavailable"
                 /\ \A e \in GetTools(registry') : e[1] # s
                 /\ \A k \in {"tool", "prompt", "resource"} :
                        \A x \in Caps[s][k] :
                            /\ Find(registry', k, Bare(x)).kind = "not_found"
                            /\ Find(registry', k, Qualified(s, x)).kind = "not_found"
      ]_vars

\* a call has given up after its fourth timeout on a Host still in service
C3_Witness ==
    \E c \in Callers :
        /\ call[c].pc = "done"
        /\ call[c].outcome = "unavailable:timeout"
        /\ HostUsable
        /\ GetServers(servers, srvState)["a"] = "unavailable"
        /\ "a" \notin registry

\* C4: once a server is Unavailable and unregistered, the next call_tool,
\* get_prompt or read_resource naming one of its capabilities, bare or
\* qualified, returns a server-unavailable error and writes no frame.
C4_NextCallUnavailable ==
    [][\A c \in Callers :
          (/\ call[c].pc = "idle" /\ call'[c].pc # "idle"
           /\ HostUsable
           /\ "a" \in servers /\ srvState["a"] = "unavailable" /\ "a" \notin registry
           /\ call'[c].name[2] \in Caps["a"][call'[c].kind])
          => /\ IsUnavailable(call'[c].outcome)
             /\ call'[c].sent = 0
             /\ received' = received
      ]_vars

\* C6: when ServerProcess.shutdown cancels the pending slots every caller still
\* waiting on one observes cancellation, and once shutdown has completed the
\* pending-request table is empty, no caller waits on it, and it stays so.
C6_ShutdownCancelsWaiters ==
    /\ [](\A s \in Names :
            shutPc[s] = "done"
                => /\ pending[s] = {}
                   /\ \A c \in Callers : ~(call[c].pc = "wait" /\ call[c].server = s))
    /\ [][\A s \in Names, c \in Callers :
            (shutPc[s] # "done" /\ shutPc'[s] = "done"
               /\ call[c].pc = "wait" /\ call[c].server = s)
            => call'[c].pc = "done" /\ call'[c].outcome = "cancelled"
       ]_vars

\* a waiting caller has been cancelled by a completed shutdown
C6_Witness ==
    \E c \in Callers :
        /\ call[c].outcome = "cancelled"
        /\ shutPc[call[c].server] = "done"
        /\ pending[call[c].server] = {}

\* calls made so far under one cache key
CallsOf(key) ==
    {c \in Callers : /\ call[c].pc # "idle"
                     /\ IsCached(call[c].kind)
                     /\ CacheKey(call[c].kind, call[c].name) = key}

RECURSIVE SumSent(_)
SumSent(S) ==
    IF S = {} THEN 0
    ELSE LET c == CHOOSE x \in S : TRUE IN call[c].sent + SumSent(S \ {c})

Answered(c) == call[c].pc = "done" /\ call[c].outcome \in {"result", "cached"}

ArgumentsOf(kind) == IF kind = "tool" THEN ToolArguments ELSE {NoArguments}

RouterNext ==
    \/ \E c \in Callers, o \in CallOptions :
          \E arguments \in ArgumentsOf(o[1]) : CallStart(c, o[1], o[2], arguments)
    \/ \E c \in Callers : SendRegister(c)
    \/ \E s \in Names, c \in Callers, v \in Payloads \cup ServerErrors :
          Deliver(s, RequestId(c), v)
    \/ \E c \in Callers : CallResume(c)
    \/ \E c \in Callers : WaitTimeout(c)
    \/ \E c \in Callers : RetryAfterBackoff(c)

SpecRouter == Init /\ [][RouterNext]_vars

(***************************************************************************)
(* SpecReader: one embedder task calling tools with a timeout of its       *)
(* choice on the Ready server of Spec, whose child may write any line and   *)
(* may die; notification handlers are registered at any time.               *)
(***************************************************************************)
ReaderCallers == {"c1"}

ReaderNext ==
    \/ \E c \in ReaderCallers, timeout \in Timeouts :
          TimedCall(c, "tool", Bare("add"), GoodArguments, timeout)
    \/ \E c \in ReaderCallers : SendRegister(c)
    \/ \E s \in Names, c \in ReaderCallers, v \in Payloads : Deliver(s, RequestId(c), v)
    \/ \E c \in ReaderCallers : CallResume(c)
    \/ \E c \in ReaderCallers : WaitTimeout(c)
    \/ \E c \in ReaderCallers : RetryAfterBackoff(c)
    \/ \E type \in NotificationTypes, handler \in Handlers :
          RegisterNotificationHandler(type, handler)
    \/ \E s \in Names, behaviour \in {"returns", "raises"} :
          SetNotificationHandler(s, behaviour)
    \/ \E s \in Names, line \in StdoutLines, type \in NotificationTypes :
          ReadLine(s, line, type)
    \/ \E s \in Names : ChildExits(s)
    \/ \E s \in Names : ReadEof(s)

SpecReader == Init /\ [][ReaderNext]_vars

(***************************************************************************)
(* SpecCaps: the part of one _start_server call that follows               *)
(* initialize_server: a */list request per advertised category, in the     *)
(* order tools, prompts, resources, then register_server.                   *)
(***************************************************************************)
\* the item lists a server may return
ItemLists == {{"x"}, {"x", "y"}}

\* a */list response carries its payload under "result", under "results",
\* or is an error response
ListShapes == {"result", "results", "error"}

\* the items _start_server takes from a */list response:
\* tools_response.get("result", {}).get("tools", []) for tools, and
\* response.get("results", {}).get(category, []) for prompts and resources
ListedItems(category, shape, items) ==
    IF category = "tools"
    THEN IF shape = "result" THEN items ELSE {}
    ELSE IF shape = "results" THEN items ELSE {}

NextCategory(category) ==
    IF category = "tools" THEN "prompts"
    ELSE IF category = "prompts" THEN "resources"
    ELSE "register"

\* initialize_server returns the initialize result; caps_dict holds the
\* advertised categories
CapsBegin(advertised) ==
    /\ caps.pc = "new"
    /\ caps' = [caps EXCEPT !.pc = "tools", !.advertised = advertised]
    /\ UNCHANGED <<overlap, reader, wire, backoff, lruLog, lookup, envLoad, metrics>>
    /\ UNCHANGED <<cfgVars, hostVars, srvVars, callVars>>

\* `if caps_dict.get(category)`: the */list request is sent and its response
\* read, or the category is skipped
FetchList(category, shape, items) ==
    /\ caps.pc = category
    /\ IF category \in caps.advertised
       THEN caps' = [caps EXCEPT !.pc = NextCategory(category),
                                 !.shape[category] = shape,
                                 !.offered[category] = IF shape = "error" THEN {} ELSE items,
                                 !.kept[category] = ListedItems(category, shape, items)]
       ELSE caps' = [caps EXCEPT !.pc = NextCategory(category)]
    /\ UNCHANGED <<overlap, reader, wire, backoff, lruLog, lookup, envLoad, metrics>>
    /\ UNCHANGED <<cfgVars, hostVars, srvVars, callVars>>

\* send_request of a */list request times out: _start_server raises
\* ServerStartupError
FetchListTimeout(category) ==
    /\ caps.pc = category
    /\ category \in caps.advertised
    /\ caps' = [caps EXCEPT !.pc = "failed"]
    /\ UNCHANGED <<overlap, reader, wire, backoff, lruLog, lookup, envLoad, metrics>>
    /\ UNCHANGED <<cfgVars, hostVars, srvVars, callVars>>

\* registry.register_server(name, ServerCapabilities(tools, prompts, resources))
RegisterCaps ==
    /\ caps.pc = "register"
    /\ caps' = [caps EXCEPT !.pc = "done", !.registered = caps.kept]
    /\ UNCHANGED <<overlap, reader, wire, backoff, lruLog, lookup, envLoad, metrics>>
    /\ UNCHANGED <<cfgVars, hostVars, srvVars, callVars>>

CapsNext ==
    \/ \E advertised \in SUBSET Range(Categories) : CapsBegin(advertised)
    \/ \E category \in Range(Categories), shape \in ListShapes, items \in ItemLists :
          FetchList(category, shape, items)
    \/ \E category \in Range(Categories) : FetchListTimeout(category)
    \/ RegisterCaps

SpecCaps == ShutdownInit /\ [][CapsNext]_vars

\* C35: when _start_server has registered a server, every advertised
\* category's */list step succeeded and every item its response carried,
\* under `result` or under `results`, is registered.
C35_ListedItemsRegistered ==
    caps.pc = "done"
        => \A k \in caps.advertised :
              /\ caps.shape[k] # "error"
              /\ caps.registered[k] = caps.offered[k]

(***************************************************************************)
(* SpecBackoff: the loop of one execute_with_retry call whose attempts     *)
(* time out, under a retry configuration of small whole numbers.           *)
(***************************************************************************)
MaxDelayUnits == 3
MaxBase == 2

RetryConfigs ==
    [initial_delay : 1..MaxDelayUnits, max_delay : 1..MaxDelayUnits,
     exponential_base : 1..MaxBase, max_retries : 0..MaxRetries]

Min2(x, y) == IF x <= y THEN x ELSE y

\* `delay = min(delay * exponential_base, max_delay)`
NextDelay(delay, cfg) == Min2(delay * cfg.exponential_base, cfg.max_delay)

\* execute_with_retry begins: `delay = self._retry_config["initial_delay"]`,
\* and the first pass of `for attempt in range(max_retries + 1)`
ExecuteWithRetry(cfg) ==
    /\ backoff.pc = "new"
    /\ backoff' = [backoff EXCEPT !.pc = "attempt", !.config = cfg,
                                  !.delay = cfg.initial_delay]
    /\ UNCHANGED <<overlap, reader, wire, caps, lruLog, lookup, envLoad, metrics>>
    /\ UNCHANGED <<cfgVars, hostVars, srvVars, callVars>>

\* the attempt returns a result
AttemptReturns ==
    /\ backoff.pc = "attempt"
    /\ backoff' = [backoff EXCEPT !.pc = "returned"]
    /\ UNCHANGED <<overlap, reader, wire, caps, lruLog, lookup, envLoad, metrics>>
    /\ UNCHANGED <<cfgVars, hostVars, srvVars, callVars>>

\* `except MCPTimeoutError`: asyncio.sleep(delay), the new delay and the
\* next pass of the loop, or the raise after the last attempt
AttemptTimesOut ==
    /\ backoff.pc = "attempt"
    /\ backoff' =
          IF backoff.attempt < backoff.config.max_retries
          THEN [backoff EXCEPT !.slept = Append(@, backoff.delay),
                               !.delay = NextDelay(@, backoff.config),
                               !.attempt = @ + 1]
          ELSE [backoff EXCEPT !.pc = "raised"]
    /\ UNCHANGED <<overlap, reader, wire, caps, lruLog, lookup, envLoad, metrics>>
    /\ UNCHANGED <<cfgVars, hostVars, srvVars, callVars>>

BackoffNext ==
    \/ \E cfg \in RetryConfigs : ExecuteWithRetry(cfg)
    \/ AttemptReturns
    \/ AttemptTimesOut

SpecBackoff == ShutdownInit /\ [][BackoffNext]_vars

RECURSIVE Power(_, _)
Power(x, n) == IF n = 0 THEN 1 ELSE x * Power(x, n - 1)

RetryNext ==
    \/ \E c \in ReaderCallers : CallStart(c, "tool", Bare("add"), GoodArguments)
    \/ \E c \in ReaderCallers : SendRegister(c)
    \/ \E c \in ReaderCallers : DrainBroken(c)
    \/ \E s \in Names, c \in ReaderCallers :
          \E v \in Payloads \cup ServerErrors \cup ProtocolErrors :
              Deliver(s, RequestId(c), v)
    \/ \E c \in ReaderCallers : CallResume(c)
    \/ \E c \in ReaderCallers : WaitTimeout(c)
    \/ \E c \in ReaderCallers : RetryAfterBackoff(c)
    \/ ShutdownCall
    \/ \E s \in Names : ShutdownBegin(s)
    \/ \E s \in Names : ShutdownCloseStdin(s)
    \/ \E s \in Names : ShutdownFinish(s)
    \/ ShutdownAllDone

SpecRetry == Init /\ [][RetryNext]_vars

\* the outcomes of a call that an error other than a timeout ended
NonTimeoutErrors ==
    {"server_error", "protocol_error", "unavailable:crashed", "broken_pipe",
     "key_error"}

\* an attempt of caller c ends in this step with an error that is not a
\* timeout: an error response or an invalid response is parsed, drain()
\* fails, or the write of a retry fails
FailsWithoutTimeout(c) ==
    \/ /\ call[c].pc = "resume"
       /\ call[c].payload \in ServerErrors \cup ProtocolErrors
       /\ call'[c] # call[c]
    \/ /\ call[c].pc = "drain"
       /\ call'[c].pc \notin {"drain", "wait"}
    \/ /\ call[c].pc = "backoff"
       /\ call'[c] # call[c]
       /\ call'[c].pc # "drain"

\* C36: only timeouts are retried: when an attempt of execute_with_retry
\* ends with a server error, a protocol error or a transport error, the call
\* ends in that step with the error, and no further frame is written for it.
C36_OnlyTimeoutsRetried ==
    [][\A c \in Callers :
          /\ FailsWithoutTimeout(c)
                => /\ call'[c].pc = "done"
                   /\ call'[c].outcome \in NonTimeoutErrors
                   /\ call'[c].sent = call[c].sent
          /\ (call[c].pc = "done" /\ call[c].outcome \in NonTimeoutErrors)
                => call'[c] = call[c]]_vars

\* a timeout was retried, and the error response to the retry ended the call
\* with two frames written
C36_Witness ==
    \E c \in Callers :
        /\ call[c].pc = "done"
        /\ call[c].outcome = "server_error"
        /\ call[c].attempt = 1
        /\ call[c].sent = 2

\* C39: Shutdown is a terminal state of a ServerProcess: once
\* ServerProcess.shutdown has set it, no step changes it; a request that
\* times out or fails afterwards does not make the server Unavailable.
C39_ShutdownIsTerminal ==
    [][\A s \in Names :
          (srvState[s] = "shutdown" /\ spawned'[s] = spawned[s])
              => srvState'[s] = "shutdown"]_vars

(***************************************************************************)
(* SpecCancel: tool calls whose calling task may be cancelled by the       *)
(* embedder while it waits for the response.                               *)
(***************************************************************************)
\* wait_for_response when the calling task is cancelled: the CancelledError
\* passes `except asyncio.TimeoutError`, and the table is left as it is
CancelledWait(table, msg_id) == table

\* the embedder cancels the task of caller c while it is suspended in
\* asyncio.wait_for: the CancelledError is no Exception, so that neither
\* execute_with_timeout nor execute_with_retry handles it
CancelCall(c) ==
    /\ call[c].pc = "wait"
    /\ call' = [call EXCEPT ![c] = Done(call[c], "task_cancelled")]
    /\ pending' = [pending EXCEPT ![call[c].server] = CancelledWait(@, RequestId(c))]
    /\ UNCHANGED <<servers, srvState, procState, stdinOpen, readerOn, shutPc,
                   registry, spawned, exited>>
    /\ UNCHANGED <<auxVars, cfgVars, hostVars, received, cache, ttlElapsed, lost>>

CancelNext ==
    \/ \E c \in Callers : CallStart(c, "tool", Bare("add"), GoodArguments)
    \/ \E c \in Callers : SendRegister(c)
    \/ \E s \in Names, c \in Callers, v \in Payloads \cup ServerErrors :
          Deliver(s, RequestId(c), v)
    \/ \E c \in Callers : CallResume(c)
    \/ \E c \in Callers : WaitTimeout(c)
    \/ \E c \in Callers : RetryAfterBackoff(c)
    \/ \E c \in Callers : CancelCall(c)

SpecCancel == Init /\ [][CancelNext]_vars

\* C40: the pending table of a server holds only ids of callers that are
\* waiting in wait_for_response: once a wait has ended, by a result, by a
\* timeout or by the cancellation of the calling task, its id is not in
\* the table.
C40_PendingOnlyWaiting ==
    \A s \in Names, c \in Callers :
        RequestId(c) \in pending[s] => (call[c].pc = "wait" /\ call[c].server = s)

(***************************************************************************)
(* SpecStop: SpecRetry with a child that may stop reading its input: what  *)
(* was written to it and does not fit the pipe stays in the buffer of the  *)
(* stdin transport.  FairStop adds the steps the event loop is sure to     *)
(* take; the child owes none.                                              *)
(***************************************************************************)
\* ServerProcess.shutdown: stdin.close() while the transport's buffer holds
\* bytes of a frame the child has not read: the transport closes once the
\* buffer is flushed, and `await self.process.stdin.wait_closed()` is
\* suspended until then
ShutdownCloseStdinHeld(s) ==
    /\ hostPc = "shutdown_all"
    /\ shutPc[s] = "begun"
    /\ procState[s] = "running"
    /\ received[s] # {}
    /\ stdinOpen' = [stdinOpen EXCEPT ![s] = FALSE]
    /\ shutPc' = [shutPc EXCEPT ![s] = "closing"]
    /\ UNCHANGED <<servers, srvState, procState, readerOn, pending, registry,
                   spawned, exited>>
    /\ UNCHANGED <<auxVars, cfgVars, hostVars, callVars>>

\* the child reads the rest of its input, or exits by itself: the buffer is
\* flushed or dropped, the transport closes and wait_closed() returns
StdinFlushed(s) ==
    /\ shutPc[s] = "closing"
    /\ shutPc' = [shutPc EXCEPT ![s] = "closed"]
    /\ UNCHANGED <<servers, srvState, procState, stdinOpen, readerOn, pending,
                   registry, spawned, exited>>
    /\ UNCHANGED <<auxVars, cfgVars, hostVars, callVars>>

StopNext ==
    \/ \E c \in ReaderCallers : CallStart(c, "tool", Bare("add"), GoodArguments)
    \/ \E c \in ReaderCallers : SendRegister(c)
    \/ \E c \in ReaderCallers : DrainBroken(c)
    \/ \E s \in Names, c \in ReaderCallers :
          \E v \in Payloads \cup ServerErrors \cup ProtocolErrors :
              Deliver(s, RequestId(c), v)
    \/ \E c \in ReaderCallers : CallResume(c)
    \/ \E c \in ReaderCallers : WaitTimeout(c)
    \/ \E c \in ReaderCallers : RetryAfterBackoff(c)
    \/ ShutdownCall
    \/ \E s \in Names : ShutdownBegin(s)
    \/ \E s \in Names : ShutdownCloseStdin(s)
    \/ \E s \in Names : ShutdownCloseStdinHeld(s)
    \/ \E s \in Names : StdinFlushed(s)
    \/ \E s \in Names : ShutdownFinish(s)
    \/ ShutdownAllDone

SpecStop == Init /\ [][StopNext]_vars

\* the event loop runs every coroutine that can run: the steps of
\* ServerProcess.shutdown (the grace period ends, the kill is made), and the
\* callers' own steps
FairStop ==
    /\ SpecStop
    /\ \A s \in Names :
          /\ WF_vars(ShutdownCloseStdin(s) \/ ShutdownCloseStdinHeld(s))
          /\ WF_vars(ShutdownFinish(s))
    /\ \A c \in ReaderCallers :
          /\ WF_vars(SendRegister(c))
          /\ WF_vars(CallResume(c))
          /\ WF_vars(WaitTimeout(c))
          /\ WF_vars(RetryAfterBackoff(c))

\* C38: ServerProcess.shutdown always terminates: once it has begun, it
\* completes, whatever the child does, a child that ignores end-of-input
\* being killed when the grace period ends.
C38_ShutdownTerminates ==
    \A s \in Names : (shutPc[s] = "begun") ~> (shutPc[s] = "done")

(***************************************************************************)
(* SpecHandshake: the Host of SpecShutdown's configuration, started and    *)
(* shut down by one task while another task calls tools at any moment.     *)
(***************************************************************************)
HandshakeNext ==
    \/ InitializeCall
    \/ CreateServerOk
    \/ CreateServerFail
    \/ InitializeServerOk
    \/ InitializeServerFail
    \/ ListCapabilitiesOk
    \/ ListCapabilitiesFail
    \/ ShutdownCall
    \/ \E s \in Names : ShutdownBegin(s)
    \/ \E s \in Names : ShutdownCloseStdin(s)
    \/ \E s \in Names : ShutdownFinish(s)
    \/ ShutdownAllDone
    \/ \E c \in ReaderCallers : CallStart(c, "tool", Qualified("a", "add"), GoodArguments)
    \/ \E c \in ReaderCallers : SendRegister(c)
    \/ \E s \in Names, c \in ReaderCallers, v \in Payloads : Deliver(s, RequestId(c), v)
    \/ \E c \in ReaderCallers : CallResume(c)
    \/ \E c \in ReaderCallers : WaitTimeout(c)
    \/ \E c \in ReaderCallers : RetryAfterBackoff(c)

SpecHandshake == ShutdownInit /\ [][HandshakeNext]_vars

\* position of the first occurrence of a frame in a log, 0 if there is none
FirstAt(log, frame) ==
    IF frame \in Range(log)
    THEN CHOOSE i \in 1..Len(log) :
            log[i] = frame /\ \A j \in 1..(i - 1) : log[j] # frame
    ELSE 0

\* the frames written to one child so far are in handshake order
InHandshakeOrder(log) ==
    /\ log # <<>> => log[1] = "initialize"
    /\ \A i \in 1..Len(log) :
          log[i] = "notifications/initialized"
              => (i > 1 /\ log[i - 1] = "<result" /\ "<error" \notin Range(log))
    /\ \A i \in 1..Len(log) :
          log[i] = "list"
              => (FirstAt(log, "notifications/initialized") \in 1..(i - 1))

\* C34: the frames written to each child begin with initialize, carry
\* notifications/initialized only right after a non-error initialize
\* response, carry */list requests only after notifications/initialized,
\* and a tools/call frame is written only to a server whose handshake has
\* been completed.
C34_HandshakeOrder ==
    /\ [](\A s \in Names : InHandshakeOrder(wire[s]))
    /\ [][\A c \in Callers :
             call'[c].sent > call[c].sent
                 => "notifications/initialized" \in Range(wire[call'[c].server])]_vars

\* C22: every handler registered through register_notification_handler for a
\* type has been called for each notification of that type a running server
\* has sent since: what is owed to the handlers has been delivered to them.
C22_NotificationsDelivered == reader.owed \subseteq reader.delivered

\* C23: while a call is in flight, the bound applied to each of its attempts
\* is the timeout the embedder passed to call_tool.
C23_TimeoutApplied ==
    \A c \in Callers :
        call[c].pc \in {"drain", "wait", "backoff"}
            => reader.timeout[c].bound = reader.timeout[c].asked

\* the reader popped the slot caller c waits on at server s in this step (a
\* timeout pops it too, but records a failed request)
Completes(c, s) ==
    /\ call[c].pc = "wait"
    /\ call[c].server = s
    /\ RequestId(c) \in pending[s]
    /\ RequestId(c) \notin pending'[s]
    /\ metrics' = metrics

\* the stdout reader of s has handled a malformed line and its child lives
HandledJunk(s) == s \in reader.junk /\ procState[s] = "running"

C31_UnavailableIsTerminal ==
    [][\A s \in Names :
          srvState[s] = "unavailable"
              => srvState'[s] \in {"unavailable", "shutdown"}]_vars

\* a retry was answered after the timeout had made the server Unavailable
C31_Witness ==
    \E c \in Callers :
        /\ call[c].pc = "done"
        /\ call[c].outcome = "result"
        /\ call[c].attempt >= 1
        /\ srvState[call[c].server] = "unavailable"

\* C32: a get_prompt or read_resource call on a usable Host whose name does
\* not resolve in the registry ends with the routing error, never with a
\* value taken from the cache.
C32_ResolveBeforeCache ==
    [][\A c \in Callers :
          (/\ call[c].pc = "idle"
           /\ call'[c].pc = "done"
           /\ IsCached(call'[c].kind)
           /\ HostUsable
           /\ Find(registry, call'[c].kind, call'[c].name).kind # "found")
              => call'[c].outcome = "routing_error"]_vars

\* C33: every prompt entry the router has stored is keyed by the resolved
\* `server.prompt` name, so invalidate_server of the owning server leaves
\* no prompt entry of that server behind.
C33_PromptKeyQualified ==
    /\ \A i \in 1..Len(cache) :
           cache[i].key[1] = "prompt" => cache[i].key[2][1] \in Names
    /\ \A s \in Running :
           \A e \in Range(CacheInvalidateServer(cache, s)) : e.key[1] # "prompt"

\* C24: whenever a caller's frame has been written and the caller is still
\* inside send_request awaiting drain(), the completion slot for its id is
\* already in the server's pending table.
C24_SlotBeforeWrite ==
    \A c \in Callers :
        call[c].pc = "drain" => RequestId(c) \in pending[call[c].server]

\* C25: a retry that finds the server Unavailable after a timeout writes no
\* frame and ends the call with server unavailable.
C25_RetryChecksReady ==
    [][\A c \in Callers :
          (/\ call[c].pc = "backoff"
           /\ srvState[call[c].server] = "unavailable"
           /\ call'[c] # call[c])
              => (/\ call'[c].sent = call[c].sent
                  /\ call'[c].pc = "done"
                  /\ IsUnavailable(call'[c].outcome))]_vars

\* C26: a response with an `error` object ends the call with the server's
\* error and changes neither the server's state nor the registry, whatever
\* the error's message is.
C26_ServerErrorKeepsReady ==
    [][\A c \in Callers :
          (/\ call[c].pc = "resume"
           /\ call[c].payload \in ServerErrors
           /\ call'[c].pc = "done")
              => (/\ call'[c].outcome = "server_error"
                  /\ srvState' = srvState
                  /\ registry' = registry)]_vars

\* C27: once an attempt of a call has timed out and its slot has been
\* removed, no response carrying that attempt's id completes a wait: not
\* the wait of a later attempt of the call either.
C27_LateResponseDiscarded ==
    [][\A c \in Callers :
          (call[c].pc = "wait" /\ call[c].attempt >= 1)
              => ~Completes(c, call[c].server)]_vars

\* C29: a call that ends because the write of its frame failed leaves the
\* server Unavailable and without a registry entry, whatever the error was.
C29_WriteFailureMarksUnavailable ==
    [][\A c \in Callers :
          (/\ call[c].pc # "done"
           /\ call'[c].pc = "done"
           /\ call'[c].outcome \in {"broken_pipe", "unavailable:crashed"})
              => (/\ srvState'[call'[c].server] = "unavailable"
                  /\ call'[c].server \notin registry')]_vars

\* C30: once the reader of a server has met end-of-stream on its child's
\* stdout, the server is Unavailable and has no registry entry.
C30_CrashMakesUnavailable ==
    \A s \in reader.eof : srvState[s] = "unavailable" /\ s \notin registry

(***************************************************************************)
(* Claims about metrics, argument validation and request ids (SpecRouter)  *)
(***************************************************************************)
\* the step in which a caller handles the response to its attempt
Answers(c) == call[c].pc = "resume" /\ call'[c].pc = "done"

\* C16: each routed attempt records exactly one metrics sample for its
\* server: a call answered with a result on its first attempt raises the
\* server's request_count by exactly 1 and its success_count by exactly 1,
\* and a call answered with a server error records no success.
C16_OneSamplePerAttempt ==
    [][\A c \in Callers :
          Answers(c) =>
              LET before == metrics[call[c].server]
                  after == metrics'[call[c].server]
              IN  /\ after.request_count = before.request_count + 1
                  /\ call[c].payload \in ServerErrors
                        => after.success_count = before.success_count
                  /\ (call[c].payload \in Payloads /\ call[c].attempt = 0)
                        => after.success_count = before.success_count + 1]_vars

\* the arguments omit a required name, or give a declared property a value of
\* another JSON type than the declared one
ViolatesSchema(schema, params) ==
    \/ \E req \in schema.required : req \notin DOMAIN params
    \/ \E key \in DOMAIN params \cap DOMAIN schema.properties :
          params[key].json # schema.properties[key]

\* C17: a call_tool whose arguments omit a required name, or give a typed
\* property a value of a different JSON type, returns a validation error
\* before any frame is written: nothing is sent, and the pending tables, the
\* servers' states and the registry are as they were.
C17_InvalidArgumentsRejected ==
    [][\A c \in Callers :
          ( /\ call[c].pc = "idle"
            /\ call'[c].pc # "idle"
            /\ call'[c].kind = "tool"
            /\ HostUsable
            /\ Find(registry, "tool", call'[c].name).kind = "found"
            /\ ViolatesSchema(InputSchema, call'[c].arguments) )
          => /\ call'[c].pc = "done"
             /\ call'[c].outcome = "validation_error"
             /\ call'[c].sent = 0
             /\ received' = received
             /\ pending' = pending
             /\ srvState' = srvState
             /\ registry' = registry]_vars

\* the request frames written so far to server s that carry msg_id
FramesWritten(s, msg_id) ==
    SumSent({c \in Callers : RequestId(c) = msg_id /\ call[c].server = s})

\* C20: no two request frames written to the same server carry the same id,
\* the frames written by the retries of execute_with_retry included.
C20_UniqueRequestIds ==
    \A s \in Names, c \in Callers : FramesWritten(s, RequestId(c)) <= 1

====
